---- MODULE Spec2Model ----
(***************************************************************************)
(* Write path of the taurusdb storage engine: the skip list of memtable.rs, *)
(* the write-ahead log of wal.rs and the FileManager of file_manager.rs,   *)
(* as state machines.                                                      *)
(***************************************************************************)
EXTENDS Integers, Sequences, FiniteSets, TLC

VARIABLES
    nodes,              \* heap of Rc<RefCell<Node>>: node id -> Node (HEAD is the sentinel)
    current_max_level,  \* SkipList.current_max_level
    length,             \* SkipList.length
    shadow,             \* ghost: the map the list is meant to be, key -> Option<value>
    last_op,            \* ghost: which path the last SkipList call took
    wal_exists,         \* the file at WriteAheadLog.path exists
    wal_bytes,          \* its bytes, as the operating system shows them to a reader
    wal_durable,        \* how many of them have reached stable storage
    acked,              \* ghost: the entries whose append returned Ok, in order
    ends,               \* ghost: the end offset of each acknowledged record
    fault,              \* ghost: the fault the file has suffered, if any
    replayed,           \* the last return value of replay, with the acked count then
    fs,                 \* what is on disk at the database path: its kind and the files in it
    call,               \* process -> the frame of its FileManager::new / open_existing call
    ret,                \* the last value a FileManager call returned, and to which process
    fm,                 \* process -> Option<FileManager>, the instance it holds
    issued,             \* ghost: process -> what new_file_number returned on its instance
    called,             \* the last call of a function without side effects: name, arguments
    returned            \* and what it returned

skipvars == <<nodes, current_max_level, length, shadow, last_op>>

walvars == <<wal_exists, wal_bytes, wal_durable, acked, ends, fault, replayed>>

fmvars == <<fs, call, ret, fm, issued>>

purevars == <<called, returned>>

vars == <<nodes, current_max_level, length, shadow, last_op,
          wal_exists, wal_bytes, wal_durable, acked, ends, fault, replayed,
          fs, call, ret, fm, issued, called, returned>>

(***************************************************************************)
(* Bounds and program constants                                            *)
(***************************************************************************)
MAX_HEIGHT == 12

\* Number of real nodes the heap holds at most.
MaxNodes == 3

\* random_height is tried with 0..MaxCoins coin successes in a row, and with a
\* run of successes that reaches MAX_HEIGHT.
MaxCoins == 1

\* Number of append calls in one run of the write-ahead log.
MaxAppends == 3

\* Number of new_file_number calls on one FileManager instance.
MaxCalls == 3

\* Length of the longest user key of a key that is encoded or decoded.
MaxKeyLen == 2

\* Option<NodePtr>::None, and the id of the sentinel head node.
NIL == -1
HEAD == 0

None == <<>>
Some(x) == <<x>>

Min(a, b) == IF a < b THEN a ELSE b

(***************************************************************************)
(* InternalKey (storage/internal_key.rs)                                   *)
(***************************************************************************)
KeyTypeOrd(t) == IF t = "Delete" THEN 0 ELSE 1

InternalKey(user_key, sequence_number, key_type) ==
    [user_key |-> user_key, sequence_number |-> sequence_number, key_type |-> key_type]

\* Vec<u8> comparison: lexicographic, a proper prefix is smaller. -1, 0, 1.
RECURSIVE BytesCmp(_, _)
BytesCmp(a, b) ==
    IF a = <<>> /\ b = <<>> THEN 0
    ELSE IF a = <<>> THEN -1
    ELSE IF b = <<>> THEN 1
    ELSE IF Head(a) < Head(b) THEN -1
    ELSE IF Head(a) > Head(b) THEN 1
    ELSE BytesCmp(Tail(a), Tail(b))

\* mutant: the older version of a user key first
cmp_sequence_ascending(self, other) ==
    LET uk == BytesCmp(self.user_key, other.user_key) IN
    IF uk # 0 THEN uk
    ELSE IF self.sequence_number < other.sequence_number THEN -1
    ELSE IF self.sequence_number > other.sequence_number THEN 1
    ELSE IF KeyTypeOrd(self.key_type) < KeyTypeOrd(other.key_type) THEN -1
    ELSE IF KeyTypeOrd(self.key_type) > KeyTypeOrd(other.key_type) THEN 1
    ELSE 0

\* impl Ord for InternalKey: Less = -1, Equal = 0, Greater = 1.
cmp(self, other) ==
    LET uk == BytesCmp(self.user_key, other.user_key) IN
    IF uk # 0 THEN uk
    ELSE IF self.sequence_number > other.sequence_number THEN -1
    ELSE IF self.sequence_number < other.sequence_number THEN 1
    ELSE IF KeyTypeOrd(self.key_type) < KeyTypeOrd(other.key_type) THEN -1
    ELSE IF KeyTypeOrd(self.key_type) > KeyTypeOrd(other.key_type) THEN 1
    ELSE 0

\* A PartialEq that looks at the user key alone.
eq_user_key_only(self, other) == self.user_key = other.user_key

\* impl PartialEq for InternalKey.
eq(self, other) ==
    /\ self.user_key = other.user_key
    /\ self.sequence_number = other.sequence_number
    /\ self.key_type = other.key_type

(***************************************************************************)
(* Inputs                                                                  *)
(***************************************************************************)
\* "a" put at sequence numbers 2 and 1, a tombstone of "a" at 2, and "b" put at 1.
Keys ==
    { InternalKey(<<97>>, 2, "Put"),
      InternalKey(<<97>>, 2, "Delete"),
      InternalKey(<<97>>, 1, "Put"),
      InternalKey(<<98>>, 1, "Put") }

Values == { <<1>>, <<2>> }

\* How many times in a row rng.random::<f64>() < 0.5 would come out true.
Coins == (0..MaxCoins) \cup {MAX_HEIGHT}

(***************************************************************************)
(* SkipList (memtable.rs)                                                  *)
(***************************************************************************)
SL == [nodes |-> nodes, current_max_level |-> current_max_level, length |-> length]

\* SkipList::new
new ==
    [nodes |-> [i \in {HEAD} |->
                   [key |-> None, value |-> None,
                    forward_pointers |-> [l \in 1..MAX_HEIGHT |-> NIL]]],
     current_max_level |-> 0,
     length |-> 0]

\* Level `level` of the code is index level + 1 of forward_pointers.
Fwd(ns, id, level) == ns[id].forward_pointers[level + 1]

\* An inner loop that also moves past a key equal to the target.
RECURSIVE AdvancePastEqual(_, _, _, _)
AdvancePastEqual(ns, current, level, key) ==
    LET next == Fwd(ns, current, level) IN
    IF next # NIL /\ cmp(ns[next].key[1], key) <= 0
    THEN AdvancePastEqual(ns, next, level, key)
    ELSE current

\* The inner loop of search: move right while the next key is less than key.
RECURSIVE Advance(_, _, _, _)
Advance(ns, current, level, key) ==
    LET next == Fwd(ns, current, level) IN
    IF next # NIL /\ cmp(ns[next].key[1], key) < 0
    THEN Advance(ns, next, level, key)
    ELSE current

\* The outer loop of search, levels current_max_level down to 0, in push order.
RECURSIVE Descend(_, _, _, _)
Descend(ns, current, level, key) ==
    LET c == Advance(ns, current, level, key) IN
    IF level = 0 THEN <<c>> ELSE <<c>> \o Descend(ns, c, level - 1, key)

Reverse(s) == [i \in 1..Len(s) |-> s[Len(s) + 1 - i]]

\* A search that returns the fingers in the order they were pushed.
search_unreversed(s, key) == Descend(s.nodes, HEAD, s.current_max_level, key)

\* SkipList::search: update[l + 1] is the predecessor on level l.
search(s, key) == Reverse(Descend(s.nodes, HEAD, s.current_max_level, key))

\* Position of a key in the order of Keys, 1-based.
Rank(key) == Cardinality({k \in Keys : cmp(k, key) < 0}) + 1

\* Heap addresses of real nodes; at most MaxNodes of them are in use at a time.
Addresses == 1..(Cardinality(Keys) + MaxNodes)

\* Rc::new: any free address. The address of the key's rank is taken when it is
\* free, the lowest free address otherwise.
NewId(ns, key) ==
    IF Rank(key) \notin DOMAIN ns THEN Rank(key)
    ELSE CHOOSE i \in Addresses :
             i \notin DOMAIN ns /\ \A j \in 1..(i - 1) : j \in DOMAIN ns

HasRoom(ns) == Cardinality(DOMAIN ns \ {HEAD}) < MaxNodes

\* A test that never finds the key.
KeyMatchesNever(ns, next, key) == FALSE

\* The exact-match test of insert, get and delete on the level-0 successor.
KeyMatches(ns, next, key) == next # NIL /\ ns[next].key # None /\ eq(ns[next].key[1], key)

\* A replacement that leaves the old value where it is.
replace_value_dropped(s, next_node, value) == s

\* A replacement that counts as a new entry.
replace_value_counted(s, next_node, value) ==
    [s EXCEPT !.nodes[next_node].value = Some(value), !.length = @ + 1]

\* insert, key_matches branch: the value is replaced in place.
replace_value(s, next_node, value) ==
    [s EXCEPT !.nodes[next_node].value = Some(value)]

\* insert, the rest: a node of the given height is created and linked in after
\* update[level] on the levels below min(height, current_max_level + 1), and
\* after the head on the levels above current_max_level.
splice(s, update, key, value, height) ==
    LET id == NewId(s.nodes, key)
        spliced == Min(height, s.current_max_level + 1)
        grows == height > s.current_max_level + 1
        new_node ==
            [key |-> Some(key), value |-> Some(value),
             forward_pointers |->
                 [l \in 1..height |->
                     IF l <= spliced
                     THEN s.nodes[update[l]].forward_pointers[l]
                     ELSE NIL]]
        relinked(i) ==
            [l \in 1..Len(s.nodes[i].forward_pointers) |->
                IF l <= spliced /\ update[l] = i THEN id
                ELSE IF i = HEAD /\ grows
                        /\ l > s.current_max_level + 1 /\ l <= height THEN id
                ELSE s.nodes[i].forward_pointers[l]]
    IN  [nodes |-> [i \in DOMAIN s.nodes \cup {id} |->
                       IF i = id THEN new_node
                       ELSE [s.nodes[i] EXCEPT !.forward_pointers = relinked(i)]],
         current_max_level |-> IF grows THEN height - 1 ELSE s.current_max_level,
         length |-> s.length + 1]

\* SkipList::insert, with the height random_height() drew.
insert(s, key, value, height) ==
    LET update == search(s, key)
        current == update[1]
        next_node == Fwd(s.nodes, current, 0)
    IN  IF KeyMatches(s.nodes, next_node, key)
        THEN replace_value(s, next_node, value)
        ELSE splice(s, update, key, value, height)

\* SkipList::get
get(s, key) ==
    LET update == search(s, key)
        next_node == Fwd(s.nodes, update[1], 0)
    IN  IF KeyMatches(s.nodes, next_node, key) THEN s.nodes[next_node].value ELSE None

\* A delete that leaves current_max_level where it is.
ShrinkNever(ns, level) == level

\* The while loop of delete that lowers current_max_level.
RECURSIVE Shrink(_, _)
Shrink(ns, level) ==
    IF level > 0 /\ Fwd(ns, HEAD, level) = NIL THEN Shrink(ns, level - 1) ELSE level

\* Rc drop: a node no forward pointer refers to any more is freed.
Referenced(ns, id) ==
    \E i \in DOMAIN ns \ {id} :
        \E l \in 1..Len(ns[i].forward_pointers) : ns[i].forward_pointers[l] = id

DropUnreferenced(ns, id) ==
    IF Referenced(ns, id) THEN ns ELSE [i \in DOMAIN ns \ {id} |-> ns[i]]

\* An unlink that relinks level 0 alone.
unlink_level_0(s, update, node_to_delete) ==
    LET relinked(i) ==
            [l \in 1..Len(s.nodes[i].forward_pointers) |->
                IF l = 1 /\ update[l] = i
                THEN s.nodes[node_to_delete].forward_pointers[l]
                ELSE s.nodes[i].forward_pointers[l]]
        ns1 == [i \in DOMAIN s.nodes |->
                   [s.nodes[i] EXCEPT !.forward_pointers = relinked(i)]]
        ns2 == DropUnreferenced(ns1, node_to_delete)
    IN  [nodes |-> ns2,
         current_max_level |-> Shrink(ns2, s.current_max_level),
         length |-> s.length - 1]

\* delete, once the node is found: every level the node is on is relinked
\* around it, current_max_level is lowered, length is decremented.
unlink(s, update, node_to_delete) ==
    LET node_height == Len(s.nodes[node_to_delete].forward_pointers)
        unlinked == Min(node_height, Len(update))
        relinked(i) ==
            [l \in 1..Len(s.nodes[i].forward_pointers) |->
                IF l <= unlinked /\ update[l] = i
                THEN s.nodes[node_to_delete].forward_pointers[l]
                ELSE s.nodes[i].forward_pointers[l]]
        ns1 == [i \in DOMAIN s.nodes |->
                   [s.nodes[i] EXCEPT !.forward_pointers = relinked(i)]]
        ns2 == DropUnreferenced(ns1, node_to_delete)
    IN  [nodes |-> ns2,
         current_max_level |-> Shrink(ns2, s.current_max_level),
         length |-> s.length - 1]

\* A delete that removes the level-0 successor without comparing its key.
delete_unchecked(s, key) ==
    LET update == search(s, key)
        node_to_delete == Fwd(s.nodes, update[1], 0)
    IN  IF node_to_delete = NIL THEN [sl |-> s, ret |-> FALSE]
        ELSE [sl |-> unlink(s, update, node_to_delete), ret |-> TRUE]

\* SkipList::delete: the list afterwards and the returned bool.
delete(s, key) ==
    LET update == search(s, key)
        current == update[1]
        node_to_delete == Fwd(s.nodes, current, 0)
    IN  IF node_to_delete = NIL THEN [sl |-> s, ret |-> FALSE]
        ELSE IF ~KeyMatches(s.nodes, node_to_delete, key) THEN [sl |-> s, ret |-> FALSE]
        ELSE [sl |-> unlink(s, update, node_to_delete), ret |-> TRUE]

\* SkipList::random_height, given how many coin flips in a row succeed.
random_height(coins) ==
    IF coins < MAX_HEIGHT - 1 THEN 1 + coins ELSE MAX_HEIGHT

len(s) == s.length

is_empty(s) == s.length = 0

(***************************************************************************)
(* SkipList actions                                                        *)
(***************************************************************************)
InitSkipList ==
    /\ nodes = new.nodes
    /\ current_max_level = new.current_max_level
    /\ length = new.length
    /\ shadow = [k \in Keys |-> None]
    /\ last_op = "new"

\* One call of insert. random_height is called only when a node is created.
Insert(k, v, c) ==
    LET replaces == KeyMatches(nodes, Fwd(nodes, search(SL, k)[1], 0), k)
        s2 == insert(SL, k, v, random_height(c))
    IN  /\ replaces \/ HasRoom(nodes)
        /\ replaces => c = 0
        /\ nodes' = s2.nodes
        /\ current_max_level' = s2.current_max_level
        /\ length' = s2.length
        /\ shadow' = [shadow EXCEPT ![k] = Some(v)]
        /\ last_op' = IF replaces THEN "insert_replace" ELSE "insert_new"
        /\ UNCHANGED <<walvars, fmvars, purevars>>

\* One call of delete.
Delete(k) ==
    LET r == delete(SL, k) IN
        /\ nodes' = r.sl.nodes
        /\ current_max_level' = r.sl.current_max_level
        /\ length' = r.sl.length
        /\ shadow' = IF r.ret THEN [shadow EXCEPT ![k] = None] ELSE shadow
        /\ last_op' = IF r.ret THEN "delete_true" ELSE last_op
        /\ UNCHANGED <<walvars, fmvars, purevars>>

NextSkipList ==
    \/ \E k \in Keys, v \in Values, c \in Coins : Insert(k, v, c)
    \/ \E k \in Keys : Delete(k)

(***************************************************************************)
(* LogEntry (logentry.rs) and its bincode form (wal.rs)                    *)
(***************************************************************************)
LogEntry(entry_type, key, value) ==
    [entry_type |-> entry_type, key |-> key, value |-> value]

\* A put, a delete of the same key, a put whose key bytes look like a record
\* header, and a put of the empty key and value.
LogEntries ==
    { LogEntry("Put", <<1>>, <<0>>),
      LogEntry("Delete", <<1>>, <<>>),
      LogEntry("Put", <<0, 1>>, <<1>>),
      LogEntry("Put", <<>>, <<>>) }

\* Byte values a damaged byte may take.
DamagedBytes == {0, 1, 2, 255}

\* bincode's index of an EntryType variant: the declaration order.
VariantIndex(entry_type) == IF entry_type = "Put" THEN 0 ELSE 1

VariantOf(index) == IF index = 0 THEN "Put" ELSE "Delete"

\* n as `width` little-endian bytes.
RECURSIVE LeBytes(_, _)
LeBytes(n, width) ==
    IF width = 0 THEN <<>> ELSE <<n % 256>> \o LeBytes(n \div 256, width - 1)

\* The little-endian value of bytes[pos .. pos + width - 1].
RECURSIVE LeValue(_, _, _)
LeValue(bytes, pos, width) ==
    IF width = 0 THEN 0
    ELSE bytes[pos] + 256 * LeValue(bytes, pos + 1, width - 1)

\* bincode's variable-length integer (config::standard()).
VarintEncode(n) ==
    IF n < 251 THEN <<n>>
    ELSE IF n < 65536 THEN <<251>> \o LeBytes(n, 2)
    ELSE IF n \div 65536 < 65536 THEN <<252>> \o LeBytes(n, 4)
    ELSE <<253>> \o LeBytes(n, 8)

Failed == [ok |-> FALSE, val |-> 0, next |-> 0]

\* Reads a variable-length integer of at most max_width bytes at pos.
VarintDecode(bytes, pos, max_width) ==
    IF pos > Len(bytes) THEN Failed
    ELSE LET b == bytes[pos]
             width == IF b = 251 THEN 2 ELSE IF b = 252 THEN 4 ELSE IF b = 253 THEN 8 ELSE 0
         IN  IF b < 251 THEN [ok |-> TRUE, val |-> b, next |-> pos + 1]
             ELSE IF b > 253 \/ width > max_width THEN Failed
             ELSE IF pos + width > Len(bytes) THEN Failed
             ELSE [ok |-> TRUE, val |-> LeValue(bytes, pos + 1, width),
                   next |-> pos + 1 + width]

\* A read that hands back the bytes there are when the input ends early.
ReadExactShort(bytes, pos, n) ==
    LET last == Min(pos + n - 1, Len(bytes)) IN
    [ok |-> TRUE, val |-> SubSeq(bytes, pos, last), next |-> last + 1]

\* Reads exactly n bytes at pos, or fails when the input ends before.
ReadExact(bytes, pos, n) ==
    IF pos + n - 1 > Len(bytes) THEN [ok |-> FALSE, val |-> <<>>, next |-> 0]
    ELSE [ok |-> TRUE, val |-> SubSeq(bytes, pos, pos + n - 1), next |-> pos + n]

\* A length-prefixed Vec<u8> at pos.
VecDecode(bytes, pos) ==
    LET n == VarintDecode(bytes, pos, 8) IN
    IF ~n.ok THEN [ok |-> FALSE, val |-> <<>>, next |-> 0]
    ELSE ReadExact(bytes, n.next, n.val)

\* bincode::encode_into_std_write of one LogEntry.
Encode(log_entry) ==
    VarintEncode(VariantIndex(log_entry.entry_type))
        \o VarintEncode(Len(log_entry.key)) \o log_entry.key
        \o VarintEncode(Len(log_entry.value)) \o log_entry.value

NoEntry == [ok |-> FALSE, entry |-> LogEntry("Put", <<>>, <<>>), next |-> 0]

\* bincode::decode_from_std_read of one LogEntry at pos.
Decode(bytes, pos) ==
    LET variant == VarintDecode(bytes, pos, 4) IN
    IF ~variant.ok \/ variant.val > 1 THEN NoEntry
    ELSE LET key == VecDecode(bytes, variant.next) IN
         IF ~key.ok THEN NoEntry
         ELSE LET value == VecDecode(bytes, key.next) IN
              IF ~value.ok THEN NoEntry
              ELSE [ok |-> TRUE,
                    entry |-> LogEntry(VariantOf(variant.val), key.val, value.val),
                    next |-> value.next]

(***************************************************************************)
(* WriteAheadLog (wal.rs)                                                  *)
(***************************************************************************)
\* An append that opens the file for writing from its start.
append_truncating(bytes, log_entry) == Encode(log_entry)

\* WriteAheadLog::append: the file after the record is written at its end.
append(bytes, log_entry) == bytes \o Encode(log_entry)

\* The while-let loop of replay: decode until the first failure.
RECURSIVE ReplayFrom(_, _)
ReplayFrom(bytes, pos) ==
    LET d == Decode(bytes, pos) IN
    IF d.ok THEN <<d.entry>> \o ReplayFrom(bytes, d.next) ELSE <<>>

\* WriteAheadLog::replay: Err when the file cannot be opened, else the entries.
replay(exists, bytes) ==
    IF ~exists THEN [ok |-> FALSE, entries |-> <<>>]
    ELSE [ok |-> TRUE, entries |-> ReplayFrom(bytes, 1)]

\* No replay yet. A replay is recorded with the number of acknowledged appends
\* and the fault of the file at the time of the call.
NotRun == [ran |-> FALSE, ok |-> FALSE, entries |-> <<>>, acked |-> 0, fault |-> "none"]

NoFault == [kind |-> "none", record |-> 0]

InitWal ==
    /\ wal_exists = FALSE
    /\ wal_bytes = <<>>
    /\ wal_durable = 0
    /\ acked = <<>>
    /\ ends = <<>>
    /\ fault = NoFault
    /\ replayed = NotRun

Attempts == Len(acked) + (IF fault.kind = "torn" THEN 1 ELSE 0)

\* append(e) returns Ok. It flushes the BufWriter to the file and does not
\* sync, so wal_durable stays.
AppendOk(e) ==
    /\ Attempts < MaxAppends
    /\ fault.kind \in {"none", "torn"}
    /\ wal_exists' = TRUE
    /\ wal_bytes' = append(wal_bytes, e)
    /\ acked' = Append(acked, e)
    /\ ends' = Append(ends, Len(wal_bytes'))
    /\ UNCHANGED <<wal_durable, fault, replayed>>
    /\ UNCHANGED <<skipvars, fmvars, purevars>>

\* replay() returns.
Replay ==
    /\ replayed' = [ran |-> TRUE, acked |-> Len(acked), fault |-> fault.kind]
                       @@ replay(wal_exists, wal_bytes)
    /\ UNCHANGED <<wal_exists, wal_bytes, wal_durable, acked, ends, fault>>
    /\ UNCHANGED <<skipvars, fmvars, purevars>>

\* The process dies inside append(e): the first n bytes of the record are in
\* the file, and append does not return.
AppendTorn(e, n) ==
    /\ Attempts < MaxAppends
    /\ fault.kind = "none"
    /\ n \in 1..(Len(Encode(e)) - 1)
    /\ wal_exists' = TRUE
    /\ wal_bytes' = wal_bytes \o SubSeq(Encode(e), 1, n)
    /\ fault' = [kind |-> "torn", record |-> Len(acked) + 1]
    /\ UNCHANGED <<wal_durable, acked, ends, replayed>>
    /\ UNCHANGED <<skipvars, fmvars, purevars>>

\* The record that holds byte offset pos (1-based) of the file.
RecordAt(pos) == CHOOSE i \in 1..Len(ends) :
                     pos <= ends[i] /\ (i = 1 \/ pos > ends[i - 1])

\* The file is cut at a byte offset inside a record: `size` bytes remain.
Truncate(size) ==
    /\ fault.kind = "none"
    /\ size \in 1..(Len(wal_bytes) - 1)
    /\ size \notin {ends[i] : i \in 1..Len(ends)}
    /\ wal_bytes' = SubSeq(wal_bytes, 1, size)
    /\ wal_durable' = Min(wal_durable, size)
    /\ fault' = [kind |-> "truncated", record |-> RecordAt(size + 1)]
    /\ UNCHANGED <<wal_exists, acked, ends, replayed>>
    /\ UNCHANGED <<skipvars, fmvars, purevars>>

\* One stored byte changes its value.
Damage(pos, b) ==
    /\ fault.kind = "none"
    /\ pos \in 1..Len(wal_bytes)
    /\ b # wal_bytes[pos]
    /\ wal_bytes' = [wal_bytes EXCEPT ![pos] = b]
    /\ fault' = [kind |-> "damaged", record |-> RecordAt(pos)]
    /\ UNCHANGED <<wal_exists, wal_durable, acked, ends, replayed>>
    /\ UNCHANGED <<skipvars, fmvars, purevars>>

\* The operating system writes more of the file back to stable storage.
Writeback(upto) ==
    /\ fault.kind = "none"
    /\ upto \in (wal_durable + 1)..Len(wal_bytes)
    /\ wal_durable' = upto
    /\ UNCHANGED <<wal_exists, wal_bytes, acked, ends, fault, replayed>>
    /\ UNCHANGED <<skipvars, fmvars, purevars>>

\* Power fails: what had not reached stable storage is gone.
PowerLoss ==
    /\ fault.kind = "none"
    /\ wal_exists
    /\ wal_bytes' = SubSeq(wal_bytes, 1, wal_durable)
    /\ fault' = [kind |-> "power_loss", record |-> 0]
    /\ UNCHANGED <<wal_exists, wal_durable, acked, ends, replayed>>
    /\ UNCHANGED <<skipvars, fmvars, purevars>>

\* The longest record of LogEntries, and the byte offsets of a full log.
MaxRecordLen == CHOOSE n \in 1..16 :
                    /\ \A e \in LogEntries : Len(Encode(e)) <= n
                    /\ \E e \in LogEntries : Len(Encode(e)) = n

Offsets == 1..(MaxAppends * MaxRecordLen)

\* Appends and replays, no fault.
NextWal ==
    \/ \E e \in LogEntries : AppendOk(e)
    \/ Replay

\* Appends, some of them cut short by a crash of the process, and replays.
NextWalTorn ==
    \/ \E e \in LogEntries : AppendOk(e)
    \/ \E e \in LogEntries, n \in Offsets : AppendTorn(e, n)
    \/ Replay

\* Appends, then a truncation inside a record, and replays.
NextWalTruncate ==
    \/ \E e \in LogEntries : AppendOk(e)
    \/ \E size \in Offsets : Truncate(size)
    \/ Replay

\* Appends, a damaged byte, and replays.
NextWalDamage ==
    \/ \E e \in LogEntries : AppendOk(e)
    \/ \E pos \in Offsets, b \in DamagedBytes : Damage(pos, b)
    \/ Replay

\* Appends, write-back by the operating system, a power failure, and replays.
NextWalPowerLoss ==
    \/ \E e \in LogEntries : AppendOk(e)
    \/ \E upto \in Offsets : Writeback(upto)
    \/ PowerLoss
    \/ Replay

(***************************************************************************)
(* Text and u64 values (file_manager.rs)                                   *)
(*                                                                         *)
(* A text is a sequence of one-character strings.  A u64 is the sequence   *)
(* of its decimal digits, most significant first, without leading zeros:   *)
(* 2^64 does not fit the integers of the model checker.                    *)
(***************************************************************************)
DigitChars == <<"0", "1", "2", "3", "4", "5", "6", "7", "8", "9">>

IsDigitChar(c) == \E i \in 1..10 : DigitChars[i] = c

DigitOf(c) == (CHOOSE i \in 1..10 : DigitChars[i] = c) - 1

\* u64::MAX = 18446744073709551615
U64_MAX == <<1, 8, 4, 4, 6, 7, 4, 4, 0, 7, 3, 7, 0, 9, 5, 5, 1, 6, 1, 5>>

\* std::process::id().to_string(): the decimal text of a process id.
RECURSIVE to_string(_)
to_string(n) ==
    IF n < 10 THEN <<DigitChars[n + 1]>>
    ELSE to_string(n \div 10) \o <<DigitChars[(n % 10) + 1]>>

RECURSIVE StripZeros(_)
StripZeros(ds) ==
    IF Len(ds) > 1 /\ ds[1] = 0 THEN StripZeros(Tail(ds)) ELSE ds

\* a <= b for two u64 digit sequences without leading zeros
RECURSIVE LexLeq(_, _)
LexLeq(a, b) ==
    \/ a = <<>>
    \/ a[1] < b[1]
    \/ a[1] = b[1] /\ LexLeq(Tail(a), Tail(b))

Leq(a, b) == Len(a) < Len(b) \/ (Len(a) = Len(b) /\ LexLeq(a, b))

\* str::parse::<u64>(): an optional '+', then one or more decimal digits, and
\* the value must fit 64 bits; None stands for Err(ParseIntError).
parse_u64(text) ==
    LET t == IF Len(text) > 1 /\ text[1] = "+" THEN Tail(text) ELSE text IN
    IF t = <<>> \/ (\E i \in 1..Len(t) : ~IsDigitChar(t[i])) THEN None
    ELSE LET v == StripZeros([i \in 1..Len(t) |-> DigitOf(t[i])]) IN
         IF Leq(v, U64_MAX) THEN Some(v) ELSE None

IsWhitespace(c) == c \in {" ", "\n", "\t", "\r"}

\* str::trim(): drops the whitespace at both ends.
RECURSIVE trim(_)
trim(text) ==
    IF text = <<>> THEN text
    ELSE IF IsWhitespace(text[1]) THEN trim(Tail(text))
    ELSE IF IsWhitespace(text[Len(text)]) THEN trim(SubSeq(text, 1, Len(text) - 1))
    ELSE text

\* str::lines(): the text split at its newlines; a final newline ends the last
\* line and opens no empty one.
RECURSIVE lines(_)
lines(text) ==
    IF text = <<>> THEN <<>>
    ELSE IF \E i \in 1..Len(text) : text[i] = "\n"
         THEN LET i == CHOOSE i \in 1..Len(text) :
                           text[i] = "\n" /\ \A j \in 1..(i - 1) : text[j] # "\n" IN
              <<SubSeq(text, 1, i - 1)>> \o lines(SubSeq(text, i + 1, Len(text)))
         ELSE <<text>>

\* str::strip_prefix(): Some(the rest) when the text starts with the prefix.
strip_prefix(text, prefix) ==
    IF Len(text) >= Len(prefix) /\ SubSeq(text, 1, Len(prefix)) = prefix
    THEN Some(SubSeq(text, Len(prefix) + 1, Len(text)))
    ELSE None

\* u64 + 1 without a width: the successor of a digit sequence
RECURSIVE Succ(_)
Succ(ds) ==
    IF ds = <<>> THEN <<1>>
    ELSE IF ds[Len(ds)] < 9 THEN [ds EXCEPT ![Len(ds)] = @ + 1]
    ELSE Succ(SubSeq(ds, 1, Len(ds) - 1)) \o <<0>>

\* u64::wrapping_add(1), what AtomicU64::fetch_add(1) stores
wrapping_add(v) == IF v = U64_MAX THEN <<0>> ELSE Succ(v)

\* AtomicU64::fetch_add(1, SeqCst): one indivisible read-modify-write
fetch_add(v) == [previous |-> v, stored |-> wrapping_add(v)]

(***************************************************************************)
(* The database path on disk (std::fs as file_manager.rs uses it)          *)
(***************************************************************************)
LOCK == <<"L", "O", "C", "K">>

CURRENT == <<"C", "U", "R", "R", "E", "N", "T">>

MANIFEST_000001 == <<"M", "A", "N", "I", "F", "E", "S", "T", "-", "0", "0", "0", "0", "0", "1">>

\* mutant: CURRENT is written in place, with no temporary file
curtmp_path_in_place == CURRENT

curtmp_path == CURRENT \o <<".", "t", "m", "p">>

current_path == CURRENT

\* the file the tests put into a directory to make it non-empty
SOMEFILE == <<"s", "o", "m", "e", "f", "i", "l", "e", ".", "t", "x", "t">>

NEXT_FILE_NUMBER == <<"n", "e", "x", "t", "_", "f", "i", "l", "e", "_",
                      "n", "u", "m", "b", "e", "r", ":">>

\* b"next_file_number: 2\n"
ManifestText == NEXT_FILE_NUMBER \o <<" ", "2", "\n">>

\* b"MANIFEST-000001\n"
CurrentText == MANIFEST_000001 \o <<"\n">>

Names == {LOCK, CURRENT, CURRENT \o <<".", "t", "m", "p">>, MANIFEST_000001, SOMEFILE}

NoFiles == [n \in Names |-> None]

\* nothing at the path
Absent == [kind |-> "absent", files |-> NoFiles]

exists(f) == f.kind # "absent"

is_file(f) == f.kind = "file"

is_dir(f) == f.kind = "dir"

\* mutant: the directory is taken to be empty without being read
read_dir_unread(f) == {}

\* read_dir(): the entries of the directory
read_dir(f) == {n \in Names : f.files[n] # None}

create_dir_all(f) == IF exists(f) THEN f ELSE [kind |-> "dir", files |-> NoFiles]

\* Path::exists() of a file of the directory
file_exists(f, name) == is_dir(f) /\ name \in Names /\ f.files[name] # None

\* mutant: OpenOptions::create(true), which opens a file that is already there
create_shared_error(f, name) ==
    IF ~is_dir(f) THEN "NotFound" ELSE "Ok"

\* The ErrorKind of OpenOptions::new().write(true).create_new(true).open(), "Ok"
\* when the file is created.
create_new_error(f, name) ==
    IF ~is_dir(f) THEN "NotFound"
    ELSE IF f.files[name] # None THEN "AlreadyExists"
    ELSE "Ok"

\* The file a successful create leaves: a new one is empty, and so is one that
\* create(true).truncate(true) opened.
create(f, name) == [f EXCEPT !.files[name] = Some(<<>>)]

\* write_all() followed by sync_all(): a kill of the process loses nothing the
\* operating system has taken, so the sync changes nothing here.
write_all(f, name, bytes) ==
    IF file_exists(f, name) THEN [f EXCEPT !.files[name] = Some(@[1] \o bytes)] ELSE f

\* mutant: the temporary file is copied instead of renamed
rename_as_copy(f, from, to) == [f EXCEPT !.files[to] = f.files[from]]

\* rename(): the target is replaced in one step and the source name is gone
rename(f, from, to) ==
    IF from = to THEN f
    ELSE [f EXCEPT !.files[to] = f.files[from], !.files[from] = None]

remove_file(f, name) == IF file_exists(f, name) THEN [f EXCEPT !.files[name] = None] ELSE f

read_to_string(f, name) == f.files[name][1]

(***************************************************************************)
(* FileManager (file_manager.rs)                                           *)
(*                                                                         *)
(* A call of new or open_existing is a frame that moves from one file      *)
(* system call to the next; other processes act on the same path between   *)
(* two of them.  Step takes one such step, Run the whole call.             *)
(***************************************************************************)
\* the processes that use the path, named by their process ids
Procs == {7, 12}

\* the threads of a process that share its FileManager
Threads == {1, 2}

\* Result::Ok; the FileManager of Ok(FileManager { .. }) is its next_file_number
Ok(next_file_number) ==
    [ok |-> TRUE, kind |-> "Ok", msg |-> <<>>, next_file_number |-> next_file_number]

\* Result::Err(Error::new(kind, msg)); an error of the operating system has
\* its kind and no message of this program
Err(kind, msg) == [ok |-> FALSE, kind |-> kind, msg |-> msg, next_file_number |-> <<>>]

Frame(op, pc) == [op |-> op, pc |-> pc, manifest_name |-> <<>>, result |-> Err("none", <<>>)]

Idle == Frame("none", "idle")

Goto(f, frame, pc) == [fs |-> f, frame |-> [frame EXCEPT !.pc = pc]]

Return(f, frame, result) == [fs |-> f, frame |-> [frame EXCEPT !.pc = "return", !.result = result]]

\* mutant: CURRENT is put in place before the manifest is created and written
initialize_db_files_current_first(f, pid, frame) ==
    CASE frame.pc = "lock_create" ->
            LET e == create_new_error(f, LOCK) IN
            IF e = "Ok" THEN Goto(create(f, LOCK), frame, "lock_write")
            ELSE Return(f, frame, Err(e, <<>>))
      [] frame.pc = "lock_write" ->
            Goto(write_all(f, LOCK, to_string(pid)), frame, "curtmp_create")
      [] frame.pc = "curtmp_create" ->
            IF is_dir(f) THEN Goto(create(f, curtmp_path), frame, "curtmp_write")
            ELSE Return(f, frame, Err("NotFound", <<>>))
      [] frame.pc = "curtmp_write" ->
            Goto(write_all(f, curtmp_path, CurrentText), frame, "rename")
      [] frame.pc = "rename" ->
            IF file_exists(f, curtmp_path)
            THEN Goto(rename(f, curtmp_path, current_path), frame, "manifest_create")
            ELSE Return(f, frame, Err("NotFound", <<>>))
      [] frame.pc = "manifest_create" ->
            LET e == create_new_error(f, MANIFEST_000001) IN
            IF e = "Ok" THEN Goto(create(f, MANIFEST_000001), frame, "manifest_write")
            ELSE Return(f, frame, Err(e, <<>>))
      [] frame.pc = "manifest_write" ->
            Return(write_all(f, MANIFEST_000001, ManifestText), frame, Ok(<<>>))

\* initialize_db_files, one file system call at a time
initialize_db_files(f, pid, frame) ==
    CASE frame.pc = "lock_create" ->
            LET e == create_new_error(f, LOCK) IN
            IF e = "Ok" THEN Goto(create(f, LOCK), frame, "lock_write")
            ELSE Return(f, frame, Err(e, <<>>))
      [] frame.pc = "lock_write" ->
            Goto(write_all(f, LOCK, to_string(pid)), frame, "manifest_create")
      [] frame.pc = "manifest_create" ->
            LET e == create_new_error(f, MANIFEST_000001) IN
            IF e = "Ok" THEN Goto(create(f, MANIFEST_000001), frame, "manifest_write")
            ELSE Return(f, frame, Err(e, <<>>))
      [] frame.pc = "manifest_write" ->
            Goto(write_all(f, MANIFEST_000001, ManifestText), frame, "curtmp_create")
      [] frame.pc = "curtmp_create" ->
            IF is_dir(f) THEN Goto(create(f, curtmp_path), frame, "curtmp_write")
            ELSE Return(f, frame, Err("NotFound", <<>>))
      [] frame.pc = "curtmp_write" ->
            Goto(write_all(f, curtmp_path, CurrentText), frame, "rename")
      [] frame.pc = "rename" ->
            IF file_exists(f, curtmp_path)
            THEN Return(rename(f, curtmp_path, current_path), frame, Ok(<<>>))
            ELSE Return(f, frame, Err("NotFound", <<>>))

\* FileManager::new
FileManager_new(f, pid, frame) ==
    CASE frame.pc = "new" ->
            IF exists(f) /\ is_file(f)
            THEN Return(f, frame, Err("AlreadyExists",
                                      <<"db already exists as a file at that location">>))
            ELSE IF exists(f) /\ is_dir(f)
            THEN IF read_dir(f) # {}
                 THEN Return(f, frame, Err("AlreadyExists",
                                           <<"db already exists at that location">>))
                 ELSE Goto(f, frame, "lock_create")
            ELSE Goto(f, frame, "create_dir_all")
      [] frame.pc = "create_dir_all" ->
            Goto(create_dir_all(f), frame, "lock_create")
      [] OTHER ->
            LET r == initialize_db_files(f, pid, frame) IN
            IF r.frame.pc = "return" /\ r.frame.result.ok
            THEN Return(r.fs, frame, Ok(<<2>>))
            ELSE r

\* mutant: a manifest without a usable line counts as a fresh one
get_next_file_num_or_default(f, manifest_name) ==
    IF manifest_name = <<>> THEN Err("IsADirectory", <<>>)
    ELSE IF ~file_exists(f, manifest_name) THEN Err("NotFound", <<>>)
    ELSE LET ls == lines(read_to_string(f, manifest_name))
             value(i) == LET rest == strip_prefix(ls[i], NEXT_FILE_NUMBER) IN
                         IF rest = None THEN None ELSE parse_u64(trim(rest[1]))
             found == {i \in 1..Len(ls) : value(i) # None}
         IN  IF found = {}
             THEN Ok(<<2>>)
             ELSE Ok(value(CHOOSE i \in found : \A j \in found : i <= j)[1])

\* get_next_file_num: the first line that has the prefix and a value that
\* parses decides; a manifest name that is empty names the directory itself
get_next_file_num(f, manifest_name) ==
    IF manifest_name = <<>> THEN Err("IsADirectory", <<>>)
    ELSE IF ~file_exists(f, manifest_name) THEN Err("NotFound", <<>>)
    ELSE LET ls == lines(read_to_string(f, manifest_name))
             value(i) == LET rest == strip_prefix(ls[i], NEXT_FILE_NUMBER) IN
                         IF rest = None THEN None ELSE parse_u64(trim(rest[1]))
             found == {i \in 1..Len(ls) : value(i) # None}
         IN  IF found = {}
             THEN Err("InvalidData", <<"next_file_number not found or invalid">>)
             ELSE Ok(value(CHOOSE i \in found : \A j \in found : i <= j)[1])

\* mutant: the failing opener cleans up the LOCK file it did not create
lock_contended_cleans_up(f, frame) ==
    IF file_exists(f, LOCK)
    THEN Return(remove_file(f, LOCK), frame,
                Err("AlreadyExists",
                    <<"database already open by process ">> \o read_to_string(f, LOCK)))
    ELSE Return(f, frame, Err("NotFound", <<>>))

\* open_existing, the Err arm of the exclusive create: LOCK is read and named
lock_contended(f, frame) ==
    IF file_exists(f, LOCK)
    THEN Return(f, frame,
                Err("AlreadyExists",
                    <<"database already open by process ">> \o read_to_string(f, LOCK)))
    ELSE Return(f, frame, Err("NotFound", <<>>))

\* mutant: CURRENT is not looked for before the lock is taken
current_missing_unchecked(f) == FALSE

\* !cp.exists()
current_missing(f) == ~file_exists(f, CURRENT)

\* FileManager::open_existing
open_existing(f, pid, frame) ==
    CASE frame.pc = "open_existing" ->
            IF ~exists(f)
            THEN Return(f, frame, Err("NotFound", <<"db directory not found">>))
            ELSE IF current_missing(f)
            THEN Return(f, frame,
                        Err("NotFound", <<"path exists, but db not initialized within">>))
            ELSE Goto(f, frame, "lock_create")
      [] frame.pc = "lock_create" ->
            LET e == create_new_error(f, LOCK) IN
            IF e = "Ok" THEN Goto(create(f, LOCK), frame, "lock_write")
            ELSE IF e = "AlreadyExists" THEN Goto(f, frame, "lock_read")
            ELSE Return(f, frame, Err(e, <<>>))
      [] frame.pc = "lock_read" -> lock_contended(f, frame)
      [] frame.pc = "lock_write" ->
            Goto(write_all(f, LOCK, to_string(pid)), frame, "current_read")
      [] frame.pc = "current_read" ->
            IF file_exists(f, CURRENT)
            THEN [fs |-> f,
                  frame |-> [frame EXCEPT !.pc = "get_next_file_num",
                                          !.manifest_name = trim(read_to_string(f, CURRENT))]]
            ELSE Return(f, frame, Err("NotFound", <<>>))
      [] frame.pc = "get_next_file_num" ->
            Return(f, frame, get_next_file_num(f, frame.manifest_name))

\* mutant: the FileManager goes away and leaves its LOCK file
drop_leaves_lock(f) == f

\* impl Drop for FileManager
drop(f) == remove_file(f, LOCK)

\* one file system call of the call in the frame
Step(f, pid, frame) ==
    IF frame.op = "new" THEN FileManager_new(f, pid, frame)
    ELSE open_existing(f, pid, frame)

\* the call in the frame, run to its return with nothing else acting on the path
RECURSIVE Run(_, _, _)
Run(f, pid, frame) ==
    IF frame.pc = "return" THEN [fs |-> f, frame |-> frame]
    ELSE LET n == Step(f, pid, frame) IN Run(n.fs, pid, n.frame)

(***************************************************************************)
(* FileManager actions                                                     *)
(***************************************************************************)
\* FileManager { next_file_number }; seed, by and prior are ghosts: the value
\* the counter started from, the constructor that made the instance, and the
\* counter of the instance that was dropped right before the constructor
\* returned (<<>> if none was)
FileManager(next_file_number, by, prior) ==
    [next_file_number |-> next_file_number, seed |-> next_file_number, by |-> by,
     prior |-> prior]

NoReturn == [proc |-> 0, op |-> "none"] @@ Err("none", <<>>)

\* the path before the test or the program touches it: nothing is there
InitFileManager ==
    /\ fs = Absent
    /\ call = [p \in Procs |-> Idle]
    /\ ret = NoReturn
    /\ fm = [p \in Procs |-> None]
    /\ issued = [p \in Procs |-> <<>>]

\* what the tests put at the path before the first call
Fixtures ==
    { [kind |-> "file", files |-> NoFiles],
      [kind |-> "dir", files |-> NoFiles],
      [kind |-> "dir", files |-> [NoFiles EXCEPT ![SOMEFILE] = Some(<<"c">>)]] }

SetUp(d) ==
    /\ fs = Absent
    /\ ret = NoReturn
    /\ \A p \in Procs : call[p] = Idle
    /\ fs' = d
    /\ UNCHANGED <<call, ret, fm, issued>>
    /\ UNCHANGED <<skipvars, walvars, purevars>>

\* The call of process p has taken the steps that lead to n: it goes on from
\* the frame of n, or it has returned and p holds the FileManager of an Ok.
Taken(p, n) ==
    /\ fs' = n.fs
    /\ IF n.frame.pc = "return"
       THEN /\ call' = [call EXCEPT ![p] = Idle]
            /\ ret' = [proc |-> p, op |-> n.frame.op] @@ n.frame.result
            /\ fm' = IF n.frame.result.ok
                     THEN [fm EXCEPT ![p] =
                              Some(FileManager(n.frame.result.next_file_number, n.frame.op,
                                               IF ret.op = "drop" THEN ret.next_file_number
                                               ELSE <<>>))]
                     ELSE fm
            /\ issued' = [issued EXCEPT ![p] = <<>>]
       ELSE /\ call' = [call EXCEPT ![p] = n.frame]
            /\ UNCHANGED <<ret, fm, issued>>
    /\ UNCHANGED <<skipvars, walvars, purevars>>

\* FileManager::new(path) is called and takes its first step.  A process
\* holds one FileManager at most: a second call in the process that holds one
\* meets the same files as a call of another process.
BeginNew(p) ==
    /\ call[p] = Idle
    /\ fm[p] = None
    /\ Taken(p, Step(fs, p, Frame("new", "new")))

BeginOpenExisting(p) ==
    /\ call[p] = Idle
    /\ fm[p] = None
    /\ Taken(p, Step(fs, p, Frame("open_existing", "open_existing")))

\* the next file system call of the call p is in
Continue(p) ==
    /\ call[p] # Idle
    /\ Taken(p, Step(fs, p, call[p]))

\* FileManager::new(path), from the call to the return, nothing in between
CallNew(p) ==
    /\ \A q \in Procs : call[q] = Idle
    /\ fm[p] = None
    /\ Taken(p, Run(fs, p, Frame("new", "new")))

\* FileManager::open_existing(path), from the call to the return
CallOpenExisting(p) ==
    /\ \A q \in Procs : call[q] = Idle
    /\ fm[p] = None
    /\ Taken(p, Run(fs, p, Frame("open_existing", "open_existing")))

\* the FileManager of p goes out of scope; ret keeps its counter
Drop(p) ==
    /\ fm[p] # None
    /\ fs' = drop(fs)
    /\ fm' = [fm EXCEPT ![p] = None]
    /\ ret' = [proc |-> p, op |-> "drop"] @@ Ok(fm[p][1].next_file_number)
    /\ issued' = [issued EXCEPT ![p] = <<>>]
    /\ UNCHANGED call
    /\ UNCHANGED <<skipvars, walvars, purevars>>

\* the decimal text of a digit sequence
Numeral(ds) == [i \in 1..Len(ds) |-> DigitChars[ds[i] + 1]]

\* mutant: every allocation is written through to the manifest
new_file_number_persisted(f, v) ==
    [fs |-> [f EXCEPT !.files[MANIFEST_000001] =
                        Some(NEXT_FILE_NUMBER \o <<" ">> \o Numeral(wrapping_add(v)) \o <<"\n">>)]]
        @@ fetch_add(v)

\* FileManager::new_file_number on a counter that holds v: the value returned,
\* the value stored, and the path on disk, which it does not touch
new_file_number(f, v) == [fs |-> f] @@ fetch_add(v)

\* thread t of process p calls new_file_number() on the shared instance
NewFileNumber(p, t) ==
    /\ fm[p] # None
    /\ Len(issued[p]) < MaxCalls
    /\ LET r == new_file_number(fs, fm[p][1].next_file_number) IN
        /\ fs' = r.fs
        /\ fm' = [fm EXCEPT ![p] = Some([fm[p][1] EXCEPT !.next_file_number = r.stored])]
        /\ issued' = [issued EXCEPT ![p] = Append(@, [thread |-> t, value |-> r.previous])]
    /\ UNCHANGED <<call, ret>>
    /\ UNCHANGED <<skipvars, walvars, purevars>>

\* Manifests a later checkpoint, another version or an editor may have left,
\* each with the value its next_file_number line states, if it states one.
Manifests ==
    { [text |-> ManifestText, value |-> Some(<<2>>)],
      [text |-> NEXT_FILE_NUMBER \o <<" ", " ", "0", "7", " ", "\n">>, value |-> Some(<<7>>)],
      [text |-> <<"v", "1", "\n">> \o NEXT_FILE_NUMBER \o <<"4", "0">>, value |-> Some(<<4, 0>>)],
      [text |-> NEXT_FILE_NUMBER \o <<" ">> \o Numeral([U64_MAX EXCEPT ![20] = 5]) \o <<"\n">>,
       value |-> Some(U64_MAX)],
      [text |-> NEXT_FILE_NUMBER \o <<" ">> \o Numeral([U64_MAX EXCEPT ![20] = 4]) \o <<"\n">>,
       value |-> Some([U64_MAX EXCEPT ![20] = 4])],
      [text |-> NEXT_FILE_NUMBER \o <<" ">> \o Numeral([U64_MAX EXCEPT ![20] = 6]) \o <<"\n">>,
       value |-> None],
      [text |-> <<>>, value |-> None],
      [text |-> <<"v", "1", "\n">>, value |-> None],
      [text |-> NEXT_FILE_NUMBER \o <<" ", "x", "\n">>, value |-> None],
      [text |-> NEXT_FILE_NUMBER \o <<" ", "-", "2", "\n">>, value |-> None],
      [text |-> NEXT_FILE_NUMBER \o <<"\n">>, value |-> None],
      [text |-> <<"n", "e", "x", "t", "_", "f", "i", "l", "e", "_",
                  "n", "u", "m", "b", "e", "r", "=", "2", "\n">>, value |-> None] }

\* the manifest is replaced while no process has the database open
ManifestEdit(m) ==
    /\ \A p \in Procs : call[p] = Idle /\ fm[p] = None
    /\ file_exists(fs, MANIFEST_000001)
    /\ fs' = [fs EXCEPT !.files[MANIFEST_000001] = Some(m.text)]
    /\ UNCHANGED <<call, ret, fm, issued>>
    /\ UNCHANGED <<skipvars, walvars, purevars>>

\* the process p is killed: its call does not return and no Drop runs
Kill(p) ==
    /\ call[p] # Idle \/ fm[p] # None
    /\ call' = [call EXCEPT ![p] = Idle]
    /\ fm' = [fm EXCEPT ![p] = None]
    /\ issued' = [issued EXCEPT ![p] = <<>>]
    /\ ret' = [proc |-> p, op |-> "kill"] @@ Err("none", <<>>)
    /\ UNCHANGED fs
    /\ UNCHANGED <<skipvars, walvars, purevars>>

\* the file and the bytes the write_all at the frame's step writes
PendingWrite(pid, frame) ==
    CASE frame.pc = "lock_write" -> [name |-> LOCK, bytes |-> to_string(pid)]
      [] frame.pc = "manifest_write" -> [name |-> MANIFEST_000001, bytes |-> ManifestText]
      [] frame.pc = "curtmp_write" -> [name |-> curtmp_path, bytes |-> CurrentText]

\* the process p is killed inside a write_all: the first n bytes are in the
\* file
KillInWrite(p, n) ==
    /\ call[p].pc \in {"lock_write", "manifest_write", "curtmp_write"}
    /\ LET w == PendingWrite(p, call[p]) IN
        /\ n < Len(w.bytes)
        /\ fs' = write_all(fs, w.name, SubSeq(w.bytes, 1, n))
    /\ call' = [call EXCEPT ![p] = Idle]
    /\ ret' = [proc |-> p, op |-> "kill"] @@ Err("none", <<>>)
    /\ UNCHANGED <<fm, issued>>
    /\ UNCHANGED <<skipvars, walvars, purevars>>

\* new, open_existing and drop of several processes, step by step
NextFileManager ==
    \/ \E d \in Fixtures : SetUp(d)
    \/ \E p \in Procs : BeginNew(p)
    \/ \E p \in Procs : BeginOpenExisting(p)
    \/ \E p \in Procs : Continue(p)
    \/ \E p \in Procs : Drop(p)

\* the same, and a process may be killed at any step
NextFileManagerKill ==
    \/ \E d \in Fixtures : SetUp(d)
    \/ \E p \in Procs : BeginNew(p)
    \/ \E p \in Procs : BeginOpenExisting(p)
    \/ \E p \in Procs : Continue(p)
    \/ \E p \in Procs : Drop(p)
    \/ \E p \in Procs : Kill(p)
    \/ \E p \in Procs, n \in 1..Len(ManifestText) : KillInWrite(p, n)

\* one call at a time, each from its call to its return
NextFileManagerCalls ==
    \/ \E d \in Fixtures : SetUp(d)
    \/ \E p \in Procs : CallNew(p)
    \/ \E p \in Procs : CallOpenExisting(p)
    \/ \E p \in Procs : Drop(p)
    \/ \E p \in Procs, t \in Threads : NewFileNumber(p, t)
    \/ \E m \in Manifests : ManifestEdit(m)

(***************************************************************************)
(* InternalKey::encode and InternalKey::decode (storage/internal_key.rs).  *)
(* A byte is a number in 0..255, a Vec<u8> a sequence of bytes.  The       *)
(* sequence number of a key that is encoded or decoded is a u64 and is     *)
(* written, as the file numbers above, as the sequence of its decimal      *)
(* digits.                                                                 *)
(***************************************************************************)
\* the decimal digits of a small number
RECURSIVE Digits(_)
Digits(n) == IF n < 10 THEN <<n>> ELSE Digits(n \div 10) \o <<n % 10>>

\* ds * m + carry on decimal digits, the last digit first
RECURSIVE MulAdd(_, _, _)
MulAdd(ds, m, carry) ==
    IF ds = <<>> THEN (IF carry = 0 THEN <<>> ELSE Digits(carry))
    ELSE LET cur == ds[Len(ds)] * m + carry IN
         MulAdd(SubSeq(ds, 1, Len(ds) - 1), m, cur \div 10) \o <<cur % 10>>

\* ds divided by d on decimal digits, r the remainder brought in: the
\* quotient (with its leading zeros) and the remainder
RECURSIVE DivMod(_, _, _)
DivMod(ds, d, r) ==
    IF ds = <<>> THEN [q |-> <<>>, r |-> r]
    ELSE LET cur == r * 10 + Head(ds)
             rest == DivMod(Tail(ds), d, cur % d)
         IN [q |-> <<cur \div d>> \o rest.q, r |-> rest.r]

\* the n low bytes of a number, the most significant of them first
RECURSIVE BeBytes(_, _)
BeBytes(ds, n) ==
    IF n = 0 THEN <<>>
    ELSE LET dm == DivMod(ds, 256, 0) IN
         BeBytes(StripZeros(dm.q), n - 1) \o <<dm.r>>

\* mutant: the least significant byte first
to_le_bytes(sequence_number) == Reverse(BeBytes(sequence_number, 8))

\* u64::to_be_bytes
to_be_bytes(sequence_number) == BeBytes(sequence_number, 8)

\* u64::from_be_bytes
RECURSIVE from_be_bytes(_)
from_be_bytes(seq) ==
    IF seq = <<>> THEN <<0>>
    ELSE StripZeros(MulAdd(from_be_bytes(SubSeq(seq, 1, Len(seq) - 1)),
                           256, seq[Len(seq)]))

\* what a call returns: Ok(value), Err(StorageError::DecodeError(..)), or no
\* value at all when the call panics
OkOf(key) == [ok |-> TRUE, panic |-> FALSE, value |-> key, msg |-> ""]
DecodeError(msg) == [ok |-> FALSE, panic |-> FALSE, value |-> <<>>, msg |-> msg]
Panic == [ok |-> FALSE, panic |-> TRUE, value |-> <<>>, msg |-> ""]

\* mutant: every byte but 0 is a Put
try_from_nonzero_is_put(value) ==
    IF value = 0 THEN OkOf("Delete") ELSE OkOf("Put")

\* impl TryFrom<u8> for KeyType
try_from(value) ==
    IF value = 0 THEN OkOf("Delete")
    ELSE IF value = 1 THEN OkOf("Put")
    ELSE DecodeError("could not parse key type from last byte")

\* impl From<KeyType> for u8
u8_from(value) == IF value = "Delete" THEN 0 ELSE 1

\* data[from..to]: the range must lie inside the slice, else the index panics
Slice(data, from, to) ==
    IF from < 0 \/ from > to \/ to > Len(data) THEN Panic
    ELSE OkOf(SubSeq(data, from + 1, to))

\* <[u8]>::last
last(data) == IF data = <<>> THEN None ELSE Some(data[Len(data)])

\* InternalKey::decode
decode(data) ==
    LET dl == Len(data) IN
    IF dl < 9
    THEN DecodeError("expected minimum 9 bytes [8 sequence_number, 1 key_type]")
    ELSE
    LET seq == Slice(data, dl - 9, dl - 1) IN
    IF seq.panic THEN Panic
    ELSE IF Len(seq.value) # 8 THEN DecodeError("could not decode sequence number")
    ELSE
    LET seq_u64 == from_be_bytes(seq.value)
        kt == last(data)
    IN
    IF kt = None THEN DecodeError("could not decode last byte into key type")
    ELSE
    LET key_type == try_from(kt[1]) IN
    IF ~key_type.ok THEN key_type
    ELSE
    LET user_key == Slice(data, 0, dl - 9) IN
    IF user_key.panic THEN Panic
    ELSE OkOf(InternalKey(user_key.value, seq_u64, key_type.value))

\* InternalKey::encode
encode(self) ==
    self.user_key \o to_be_bytes(self.sequence_number) \o <<u8_from(self.key_type)>>

\* The bytes user keys are made of: both tag bytes, a letter, the largest.
Bytes == {0, 1, 97, 255}

UserKeys == UNION {[1..n -> Bytes] : n \in 0..MaxKeyLen}

\* Eight bytes and the u64 they spell, the most significant byte first.
BigEndian ==
    { [bytes |-> <<0, 0, 0, 0, 0, 0, 0, 0>>, value |-> <<0>>],
      [bytes |-> <<0, 0, 0, 0, 0, 0, 0, 1>>, value |-> <<1>>],
      [bytes |-> <<0, 0, 0, 0, 0, 0, 1, 255>>, value |-> <<5, 1, 1>>],
      [bytes |-> <<0, 0, 0, 1, 0, 0, 0, 0>>,
       value |-> <<4, 2, 9, 4, 9, 6, 7, 2, 9, 6>>],
      [bytes |-> <<1, 2, 3, 4, 5, 6, 7, 8>>,
       value |-> <<7, 2, 6, 2, 3, 8, 5, 9, 7, 9, 0, 3, 8, 2, 8, 5, 6>>],
      [bytes |-> <<128, 0, 0, 0, 0, 0, 0, 0>>,
       value |-> <<9, 2, 2, 3, 3, 7, 2, 0, 3, 6, 8, 5, 4, 7, 7, 5, 8, 0, 8>>],
      [bytes |-> <<255, 0, 0, 0, 0, 0, 0, 0>>,
       value |-> <<1, 8, 3, 7, 4, 6, 8, 6, 4, 7, 9, 6, 7, 1, 6, 2, 3, 6, 8, 0>>],
      [bytes |-> <<255, 255, 255, 255, 255, 255, 255, 255>>, value |-> U64_MAX] }

KeyTypes == {"Delete", "Put"}

\* the keys that are encoded
WideKeys ==
    {InternalKey(uk, t.value, kt) : uk \in UserKeys, t \in BigEndian, kt \in KeyTypes}

\* last bytes of an input of decode: the two tags and two bytes that are none
Tags == {0, 1, 2, 255}

\* inputs of decode of nine bytes and more
LongInputs ==
    {uk \o t.bytes \o <<tag>> : uk \in UserKeys, t \in BigEndian, tag \in Tags}

\* inputs of decode of fewer than nine bytes
ShortInputs == {SubSeq(d, 1, n) : d \in LongInputs, n \in 0..8}

\* the keys that are compared: sequence numbers that fit the model's integers
NarrowKeys ==
    {InternalKey(uk, sn, kt) :
        uk \in {<<>>, <<0>>, <<97>>, <<97, 0>>, <<97, 255>>, <<255>>},
        sn \in {0, 1, 2, 2147483647},
        kt \in KeyTypes}

\* The functions below keep nothing between two calls: a behaviour follows
\* one call, from its arguments to what it returns.
EncodeKey(k) ==
    /\ called.fn = "none"
    /\ called' = [fn |-> "encode", self |-> k]
    /\ returned' = encode(k)
    /\ UNCHANGED <<skipvars, walvars, fmvars>>

DecodeBytes(data) ==
    /\ called.fn = "none"
    /\ called' = [fn |-> "decode", data |-> data]
    /\ returned' = decode(data)
    /\ UNCHANGED <<skipvars, walvars, fmvars>>

CompareKeys(a, b) ==
    /\ called.fn = "none"
    /\ called' = [fn |-> "cmp", self |-> a, other |-> b]
    /\ returned' = cmp(a, b)
    /\ UNCHANGED <<skipvars, walvars, fmvars>>

NextInternalKey ==
    \/ \E k \in WideKeys : EncodeKey(k)
    \/ \E data \in LongInputs \cup ShortInputs : DecodeBytes(data)
    \/ \E a \in NarrowKeys, b \in NarrowKeys : CompareKeys(a, b)

(***************************************************************************)
(* FileManager::generate_filename (file_manager.rs).  File types are the   *)
(* variants of enum Name, a path is the sequence of its characters.        *)
(***************************************************************************)
Name == {"SSTable", "WriteAheadLog", "Manifest", "Current", "Lock"}

SSTABLE == <<"S", "S", "T", "a", "b", "l", "e">>

\* mutant: the names of the variants, as derive(Debug) prints them
Debug(file_type) ==
    CASE file_type = "SSTable" -> SSTABLE
      [] file_type = "WriteAheadLog" -> <<"W", "r", "i", "t", "e", "A", "h", "e", "a", "d", "L", "o", "g">>
      [] file_type = "Manifest" -> <<"M", "a", "n", "i", "f", "e", "s", "t">>
      [] file_type = "Current" -> <<"C", "u", "r", "r", "e", "n", "t">>
      [] file_type = "Lock" -> <<"L", "o", "c", "k">>

\* impl Display for Name
Display(file_type) ==
    CASE file_type = "SSTable" -> SSTABLE
      [] file_type = "WriteAheadLog" -> <<"W", "A", "L">>
      [] file_type = "Manifest" -> <<"M", "A", "N", "I", "F", "E", "S", "T">>
      [] file_type = "Current" -> <<"C", "U", "R", "R", "E", "N", "T">>
      [] file_type = "Lock" -> <<"L", "O", "C", "K">>

\* mutant: the last six digits and no more
format_06_fixed(num) ==
    LET text == <<"0", "0", "0", "0", "0", "0">> \o Numeral(num) IN
    SubSeq(text, Len(text) - 5, Len(text))

\* format!("{:06}", num): the decimal digits, zeros put before them while
\* they are fewer than six
RECURSIVE Pad(_, _)
Pad(text, width) == IF Len(text) >= width THEN text ELSE Pad(<<"0">> \o text, width)

format_06(num) == Pad(Numeral(num), 6)

\* Option::is_some
is_some(number) == number # None

\* mutant: a number is never in the way
is_none_unchecked(number) == TRUE

\* Option::is_none
is_none(number) == number = None

\* a failed assert!: the call panics with the message and returns nothing
PanicWith(msg) == [ok |-> FALSE, panic |-> TRUE, value |-> <<>>, msg |-> msg]

\* PathBuf::join
join(base, path) ==
    IF path # <<>> /\ path[1] = "/" THEN path
    ELSE IF base = <<>> \/ base[Len(base)] = "/" THEN base \o path
    ELSE base \o <<"/">> \o path

\* FileManager::generate_filename, self.db_dir_path for self
generate_filename(db_dir_path, file_type, number) ==
    LET path ==
            CASE file_type = "SSTable" ->
                   IF ~is_some(number) THEN PanicWith("SSTable requires a file number!")
                   ELSE OkOf(format_06(number[1]) \o <<".", "s", "s", "t">>)
              [] file_type = "WriteAheadLog" ->
                   IF ~is_some(number)
                   THEN PanicWith("WriteAheadLogs require a file number!")
                   ELSE OkOf(format_06(number[1]) \o <<".", "l", "o", "g">>)
              [] file_type = "Manifest" ->
                   IF ~is_some(number) THEN PanicWith("Manifests require a file number!")
                   ELSE OkOf(Display(file_type) \o <<"-">> \o format_06(number[1]))
              [] file_type \in {"Current", "Lock"} ->
                   IF ~is_none(number)
                   THEN PanicWith("Fixed file types should not have a number")
                   ELSE OkOf(Display(file_type))
    IN
    IF path.panic THEN path ELSE OkOf(join(db_dir_path, path.value))

\* the directory the FileManagers of the model are made on
DbDirPath == <<"/", "d", "b">>

\* File numbers, each with its six-place form.
FileNumbers ==
    { [number |-> <<0>>, padded |-> <<"0", "0", "0", "0", "0", "0">>],
      [number |-> <<1>>, padded |-> <<"0", "0", "0", "0", "0", "1">>],
      [number |-> <<2>>, padded |-> <<"0", "0", "0", "0", "0", "2">>],
      [number |-> <<3>>, padded |-> <<"0", "0", "0", "0", "0", "3">>],
      [number |-> <<5>>, padded |-> <<"0", "0", "0", "0", "0", "5">>],
      [number |-> <<4, 2>>, padded |-> <<"0", "0", "0", "0", "4", "2">>],
      [number |-> <<1, 0, 0>>, padded |-> <<"0", "0", "0", "1", "0", "0">>],
      [number |-> <<9, 9, 9>>, padded |-> <<"0", "0", "0", "9", "9", "9">>],
      [number |-> <<9, 9, 9, 9>>, padded |-> <<"0", "0", "9", "9", "9", "9">>],
      [number |-> <<9, 9, 9, 9, 9, 9>>, padded |-> <<"9", "9", "9", "9", "9", "9">>],
      [number |-> <<1, 0, 0, 0, 0, 0, 0>>, padded |-> <<"1", "0", "0", "0", "0", "0", "0">>],
      [number |-> <<1, 2, 3, 4, 5, 6, 7, 8>>, padded |-> <<"1", "2", "3", "4", "5", "6", "7", "8">>],
      [number |-> U64_MAX,
       padded |-> <<"1", "8", "4", "4", "6", "7", "4", "4", "0", "7", "3", "7", "0", "9", "5", "5", "1", "6", "1", "5">>] }

\* generate_filename is called on the FileManager of process p
GenerateFilename(p, file_type, number) ==
    /\ fm[p] # None
    /\ called.fn = "none"
    /\ called' = [fn |-> "generate_filename", file_type |-> file_type, number |-> number]
    /\ returned' = generate_filename(DbDirPath, file_type, number)
    /\ UNCHANGED <<skipvars, walvars, fmvars>>

NextFilenames ==
    \/ \E p \in Procs : CallNew(p)
    \/ \E p \in Procs, t \in Threads : NewFileNumber(p, t)
    \/ \E p \in Procs, file_type \in Name, n \in FileNumbers :
           GenerateFilename(p, file_type, Some(n.number))
    \/ \E p \in Procs, file_type \in Name : GenerateFilename(p, file_type, None)

\* the calls of a FileManager up to the first name that is asked of it, for a
\* number that new_file_number has returned on it
NextFileNumbersNamed ==
    \/ \E d \in Fixtures : called.fn = "none" /\ SetUp(d)
    \/ \E p \in Procs : called.fn = "none" /\ CallNew(p)
    \/ \E p \in Procs : called.fn = "none" /\ CallOpenExisting(p)
    \/ \E p \in Procs : called.fn = "none" /\ Drop(p)
    \/ \E p \in Procs, t \in Threads : called.fn = "none" /\ NewFileNumber(p, t)
    \/ \E m \in Manifests : called.fn = "none" /\ ManifestEdit(m)
    \/ \E p \in Procs, file_type \in Name, i \in 1..MaxCalls :
           /\ i <= Len(issued[p])
           /\ GenerateFilename(p, file_type, Some(issued[p][i].value))

(***************************************************************************)
(* Configuration (config/tconfig.rs, config/mvcc.rs, config/performance.rs)*)
(* validate collects its errors in a Vec: a sequence of error values, each *)
(* the name of its variant with the values the variant holds.              *)
(***************************************************************************)
\* Ok(()) and Err(err) of a validate
OkUnit == [ok |-> TRUE, errors |-> <<>>]
ErrOf(errors) == [ok |-> FALSE, errors |-> errors]

\* if cond { err.errors.push(e) }
push_if(errors, cond, e) == IF cond THEN Append(errors, e) ELSE errors

\* if err.errors.is_empty() { return Ok(()) } Err(err)
Result(errors) == IF errors = <<>> THEN OkUnit ELSE ErrOf(errors)

\* mutant: the lowest bit alone
BitAndLowBit(a, b) == (a % 2) * (b % 2)

\* a & b on unsigned integers
RECURSIVE BitAnd(_, _)
BitAnd(a, b) ==
    IF a = 0 \/ b = 0 THEN 0
    ELSE (a % 2) * (b % 2) + 2 * BitAnd(a \div 2, b \div 2)

\* TaurusConfig::validate
TaurusConfig_validate(self) ==
    LET e0 == <<>>
        e1 == push_if(e0, self.block_size = 0
                              \/ BitAnd(self.block_size, self.block_size - 1) # 0,
                      [error |-> "BlockSizeNotPowerOfTwo", args |-> <<self.block_size>>])
        e2 == push_if(e1, self.block_size < 4 * 1024,
                      [error |-> "BlockSizeTooSmall", args |-> <<self.block_size>>])
        e3 == push_if(e2, self.block_size > 128 * 1024,
                      [error |-> "BlockSizeTooLarge", args |-> <<self.block_size>>])
        e4 == push_if(e3, self.mem_table_size < 1024 * 1024,
                      [error |-> "MemtableSizeTooSmall", args |-> <<self.mem_table_size>>])
        e5 == push_if(e4, self.mem_table_size > 1024 * 1024 * 1024,
                      [error |-> "MemtableSizeTooLarge", args |-> <<self.mem_table_size>>])
        e6 == push_if(e5, self.mem_table_size <= self.block_size,
                      [error |-> "MemtableSmallerThanBlock",
                       args |-> <<self.mem_table_size, self.block_size>>])
        e7 == push_if(e6, self.bloom_bits_per_key < 4,
                      [error |-> "BloomBitsPerKeyTooLow", args |-> <<self.bloom_bits_per_key>>])
        e8 == push_if(e7, self.bloom_bits_per_key > 20,
                      [error |-> "BloomBitsPerKeyTooHigh", args |-> <<self.bloom_bits_per_key>>])
    IN Result(e8)

\* mutant: validate returns at the first rule that is violated
MvccConfig_validate_first(self) ==
    IF self.snapshot_retention.min_snapshots >= self.snapshot_retention.max_snapshots
    THEN ErrOf(<<[error |-> "InvertedRange",
                  args |-> <<self.snapshot_retention.min_snapshots,
                             self.snapshot_retention.max_snapshots>>]>>)
    ELSE IF self.snapshot_retention.max_snapshots > 10000
    THEN ErrOf(<<[error |-> "MaxSnapShotTooHigh",
                  args |-> <<self.snapshot_retention.max_snapshots>>]>>)
    ELSE IF self.snapshot_age_warning_threshold_secs
                >= self.snapshot_retention.max_snapshot_age_secs
    THEN ErrOf(<<[error |-> "WarningThresholdBelowMax",
                  args |-> <<self.snapshot_age_warning_threshold_secs,
                             self.snapshot_retention.max_snapshot_age_secs>>]>>)
    ELSE IF self.gc_config.gc_batch_size < 100
    THEN ErrOf(<<[error |-> "GcBatchSizeTooSmall",
                  args |-> <<self.gc_config.gc_batch_size>>]>>)
    ELSE OkUnit

\* MvccConfig::validate
MvccConfig_validate(self) ==
    LET e0 == <<>>
        e1 == push_if(e0, self.snapshot_retention.min_snapshots
                              >= self.snapshot_retention.max_snapshots,
                      [error |-> "InvertedRange",
                       args |-> <<self.snapshot_retention.min_snapshots,
                                  self.snapshot_retention.max_snapshots>>])
        e2 == push_if(e1, self.snapshot_retention.max_snapshots > 10000,
                      [error |-> "MaxSnapShotTooHigh",
                       args |-> <<self.snapshot_retention.max_snapshots>>])
        e3 == push_if(e2, self.snapshot_age_warning_threshold_secs
                              >= self.snapshot_retention.max_snapshot_age_secs,
                      [error |-> "WarningThresholdBelowMax",
                       args |-> <<self.snapshot_age_warning_threshold_secs,
                                  self.snapshot_retention.max_snapshot_age_secs>>])
        e4 == push_if(e3, self.gc_config.gc_batch_size < 100,
                      [error |-> "GcBatchSizeTooSmall",
                       args |-> <<self.gc_config.gc_batch_size>>])
    IN Result(e4)

\* mutant: the three parameters are checked whatever the mode
wal_sync_errors_any_mode(errors, wal_sync) ==
    push_if(push_if(push_if(errors, wal_sync.batch_size = 0,
                            [error |-> "WalBatchSizeZero", args |-> <<>>]),
                    wal_sync.batch_bytes = 0,
                    [error |-> "WalBatchBytesZero", args |-> <<>>]),
            wal_sync.periodic_interval_ms = 0,
            [error |-> "WalPeriodicIntervalZero", args |-> <<>>])

\* the errors of the match on self.wal_sync.mode
wal_sync_errors(errors, wal_sync) ==
    CASE wal_sync.mode = "Batch" ->
           push_if(push_if(errors, wal_sync.batch_size = 0,
                           [error |-> "WalBatchSizeZero", args |-> <<>>]),
                   wal_sync.batch_bytes = 0,
                   [error |-> "WalBatchBytesZero", args |-> <<>>])
      [] wal_sync.mode = "Periodic" ->
           push_if(errors, wal_sync.periodic_interval_ms = 0,
                   [error |-> "WalPeriodicIntervalZero", args |-> <<>>])
      [] wal_sync.mode = "EveryWrite" -> errors

\* PerformanceConfig::validate; num_cpus is what num_cpus::get() returns on
\* the machine
PerformanceConfig_validate(self, num_cpus) ==
    LET e0 == <<>>
        e1 == push_if(e0, self.compaction_threads > num_cpus * 2,
                      [error |-> "CompactionThreadsTooHigh",
                       args |-> <<self.compaction_threads>>])
        e2 == push_if(e1, self.readahead_size > 64 * 1024 * 1024,
                      [error |-> "ReadaheadSizeTooHigh", args |-> <<self.readahead_size>>])
        e3 == wal_sync_errors(e2, self.wal_sync)
        e4 == push_if(e3, self.parallelism.scan_parallelism
                              > self.parallelism.max_read_threads,
                      [error |-> "ScanParallelismExceedsReadThreads",
                       args |-> <<self.parallelism.scan_parallelism,
                                  self.parallelism.max_read_threads>>])
    IN Result(e4)

\* Configurations: for each field the values on both sides of each limit, the
\* default, and the ends of its range that the model's integers hold.
TaurusConfigs ==
    [block_size : {0, 1, 4095, 4096, 6000, 32 * 1024, 128 * 1024, 128 * 1024 + 1,
                   256 * 1024, 1024 * 1024, 2147483647},
     mem_table_size : {0, 4096, 128 * 1024, 1024 * 1024 - 1, 1024 * 1024,
                       64 * 1024 * 1024, 1024 * 1024 * 1024, 1024 * 1024 * 1024 + 1},
     compression_algo : {"LZ4"},
     bloom_bits_per_key : {0, 3, 4, 10, 20, 21, 255}]

MvccConfigs ==
    [snapshot_retention :
         [min_snapshots : {0, 5, 1000, 10000, 10001},
          max_snapshots : {0, 5, 6, 1000, 10000, 10001},
          max_snapshot_age_secs : {0, 3600}],
     gc_config :
         [gc_interval_secs : {300},
          gc_batch_size : {0, 99, 100, 1000},
          min_obsolete_versions : {10000}],
     snapshot_age_warning_threshold_secs : {0, 1800, 3599, 3600, 3601}]

WalSyncModes == {"EveryWrite", "Batch", "Periodic"}

PerformanceConfigs ==
    [compaction_threads : {2, 3, 16, 17},
     wal_sync :
         [mode : WalSyncModes,
          batch_size : {0, 1000},
          batch_bytes : {0, 4 * 1024 * 1024},
          periodic_interval_ms : {0, 1000}],
     readahead_size : {4 * 1024 * 1024, 64 * 1024 * 1024, 64 * 1024 * 1024 + 1},
     parallelism :
         [max_read_threads : {0, 8},
          max_write_threads : {4},
          scan_parallelism : {0, 2, 8, 9}]]

\* what num_cpus::get() may return
NumCpus == {1, 8}

ValidateTaurusConfig(c) ==
    /\ called.fn = "none"
    /\ called' = [fn |-> "TaurusConfig::validate", self |-> c]
    /\ returned' = TaurusConfig_validate(c)
    /\ UNCHANGED <<skipvars, walvars, fmvars>>

ValidateMvccConfig(c) ==
    /\ called.fn = "none"
    /\ called' = [fn |-> "MvccConfig::validate", self |-> c]
    /\ returned' = MvccConfig_validate(c)
    /\ UNCHANGED <<skipvars, walvars, fmvars>>

ValidatePerformanceConfig(c, num_cpus) ==
    /\ called.fn = "none"
    /\ called' = [fn |-> "PerformanceConfig::validate", self |-> c, num_cpus |-> num_cpus]
    /\ returned' = PerformanceConfig_validate(c, num_cpus)
    /\ UNCHANGED <<skipvars, walvars, fmvars>>

NextConfig ==
    \/ \E c \in TaurusConfigs : ValidateTaurusConfig(c)
    \/ \E c \in MvccConfigs : ValidateMvccConfig(c)
    \/ \E c \in PerformanceConfigs, num_cpus \in NumCpus :
           ValidatePerformanceConfig(c, num_cpus)

\* no function has been called yet
InitPure ==
    /\ called = [fn |-> "none"]
    /\ returned = <<>>

Init == InitSkipList /\ InitWal /\ InitFileManager /\ InitPure

SpecSkipList == Init /\ [][NextSkipList]_vars

SpecWal == Init /\ [][NextWal]_vars

SpecWalTorn == Init /\ [][NextWalTorn]_vars

SpecWalTruncate == Init /\ [][NextWalTruncate]_vars

SpecWalDamage == Init /\ [][NextWalDamage]_vars

SpecWalPowerLoss == Init /\ [][NextWalPowerLoss]_vars

SpecFileManager == Init /\ [][NextFileManager]_vars

SpecFileManagerKill == Init /\ [][NextFileManagerKill]_vars

SpecFileManagerCalls == Init /\ [][NextFileManagerCalls]_vars

SpecInternalKey == Init /\ [][NextInternalKey]_vars

SpecFilenames == Init /\ [][NextFilenames]_vars

SpecFileNumbersNamed == Init /\ [][NextFileNumbersNamed]_vars

SpecConfig == Init /\ [][NextConfig]_vars

(***************************************************************************)
(* SkipList properties                                                     *)
(***************************************************************************)
Present == {k \in Keys : shadow[k] # None}

SameUserKey(a, b) == a # b /\ a.user_key = b.user_key

\* C1: in every state reached by insert and delete calls, whatever heights were
\* drawn, get(k) is the value of the latest insert of k that no successful
\* delete of k followed, and None when there is no such insert.
C1_GetIsLatestInsert == \A k \in Keys : get(SL, k) = shadow[k]

\* A delete has just succeeded, one key still holds a value that get finds and
\* the list has a node of full height.
C1_Witness ==
    /\ last_op = "delete_true"
    /\ current_max_level = MAX_HEIGHT - 1
    /\ \E k \in Keys : shadow[k] = Some(<<2>>) /\ get(SL, k) = Some(<<2>>)
    /\ \E k \in Keys : shadow[k] = None /\ get(SL, k) = None

\* C2: len() is the number of distinct keys stored, and is_empty() is true
\* exactly when len() is 0.
C2_LenCountsStoredKeys ==
    /\ len(SL) = Cardinality(Present)
    /\ is_empty(SL) <=> (len(SL) = 0)
    /\ is_empty(SL) <=> (Present = {})

\* A value has just been replaced in a list of two entries.
C2_Witness == last_op = "insert_replace" /\ len(SL) = 2 /\ Cardinality(Present) = 2

\* C3: inserting a key that is present replaces its value in place: len, the
\* set of nodes and current_max_level stay, and get returns the new value.
C3_ReplaceInPlace ==
    \A k \in Present : \A v \in Values, c \in Coins :
        \A s2 \in {insert(SL, k, v, random_height(c))} :
            /\ len(s2) = len(SL)
            /\ DOMAIN s2.nodes = DOMAIN nodes
            /\ \A i \in DOMAIN nodes :
                   /\ s2.nodes[i].forward_pointers = nodes[i].forward_pointers
                   /\ s2.nodes[i].key = nodes[i].key
            /\ s2.current_max_level = current_max_level
            /\ get(s2, k) = Some(v)

\* The last call replaced a value by a different one, among other entries.
C3_Witness ==
    /\ last_op = "insert_replace"
    /\ len(SL) = 3
    /\ \E k \in Present : get(SL, k) = Some(<<2>>)
    /\ \E k \in Present : get(SL, k) = Some(<<1>>)

\* C4: delete(k) returns true exactly when k is present. On false the list is
\* unchanged; on true k is gone, len is one less and every other entry is
\* still returned by get with its value.
C4_DeleteExactlyThatEntry ==
    \A k \in Keys :
        \A r \in {delete(SL, k)} :
            /\ r.ret <=> (k \in Present)
            /\ ~r.ret => r.sl = SL
            /\ r.ret =>
                   /\ len(r.sl) = len(SL) - 1
                   /\ get(r.sl, k) = None
                   /\ \A k2 \in Keys \ {k} : get(r.sl, k2) = shadow[k2]

\* A delete has just removed one of three entries, and a delete of the removed
\* key would now return false.
C4_Witness ==
    /\ last_op = "delete_true"
    /\ len(SL) = 2
    /\ \E k \in Keys \ Present : ~delete(SL, k).ret

\* C5: an insert of a key that shares its user_key with a stored key but
\* differs in sequence_number or tag adds an entry of its own, before or after
\* the stored one: len grows by one and both keys return their own values.
C5_VersionsAreSeparateEntries ==
    \A k1 \in Present : \A k2 \in Keys \ Present :
        SameUserKey(k1, k2) =>
            \A v \in Values, c \in Coins :
                \A s2 \in {insert(SL, k2, v, random_height(c))} :
                    /\ len(s2) = len(SL) + 1
                    /\ get(s2, k2) = Some(v)
                    /\ get(s2, k1) = shadow[k1]

\* "a" is stored at sequence numbers 2 and 1 and as a tombstone at 2, each
\* with its own node, the last of them just added.
C5_Witness ==
    /\ last_op = "insert_new"
    /\ len(SL) = 3
    /\ \A k \in Keys : k.user_key = <<97>> => get(SL, k) # None
    /\ get(SL, InternalKey(<<97>>, 2, "Put")) # get(SL, InternalKey(<<97>>, 2, "Delete"))

(***************************************************************************)
(* WriteAheadLog properties                                                *)
(***************************************************************************)
AckedAt(n) == SubSeq(acked, 1, n)

\* C6: when some appends were cut short by a crash that left a partial record
\* in the file, replay returns exactly the entries whose append returned Ok, in
\* append order.
C6_ReplayIsAckedDespiteTornAppend ==
    (replayed.ran /\ replayed.ok) => replayed.entries = AckedAt(replayed.acked)

\* C7: after a truncation at a byte offset inside a record, replay returns Ok
\* with exactly the records that lie wholly before the cut, in order.
C7_TruncatedTailIsDropped ==
    (replayed.ran /\ replayed.fault = "truncated") =>
        /\ replayed.ok
        /\ replayed.entries = AckedAt(fault.record - 1)

\* Three records were appended, the file was cut inside the second, and the
\* replay returned the first alone.
C7_Witness ==
    /\ replayed.ran
    /\ replayed.fault = "truncated"
    /\ Len(acked) = 3
    /\ fault.record = 2
    /\ Len(wal_bytes) > ends[1]
    /\ replayed.entries = <<acked[1]>>

\* C8: without a fault, a replay made after n >= 1 appends returns n entries,
\* the i-th equal to the i-th entry appended (type, key and value).
C8_ReplayReturnsAppendsInOrder ==
    (replayed.ran /\ replayed.acked > 0) =>
        /\ replayed.ok
        /\ Len(replayed.entries) = replayed.acked
        /\ \A i \in 1..replayed.acked :
               /\ replayed.entries[i].entry_type = acked[i].entry_type
               /\ replayed.entries[i].key = acked[i].key
               /\ replayed.entries[i].value = acked[i].value

\* A replay between the second and the third append returned a put followed by
\* a delete.
C8_Witness ==
    /\ replayed.ran
    /\ replayed.acked = 2
    /\ Len(acked) = 3
    /\ Len(replayed.entries) = 2
    /\ replayed.entries[1].entry_type = "Put"
    /\ replayed.entries[2].entry_type = "Delete"

\* C9: a record whose append returned Ok is on stable storage: a replay after
\* a power failure returns every acknowledged entry.
C9_AckedSurvivesPowerLoss ==
    (replayed.ran /\ replayed.fault = "power_loss") =>
        /\ replayed.ok
        /\ \A i \in 1..Len(acked) :
               /\ i <= Len(replayed.entries)
               /\ replayed.entries[i] = acked[i]

\* C10: when a stored byte of a record differs from what was appended, replay
\* ends the log at that record: it returns Ok with the records before it.
C10_DamagedRecordEndsLog ==
    (replayed.ran /\ replayed.fault = "damaged") =>
        /\ replayed.ok
        /\ replayed.entries = AckedAt(fault.record - 1)

(***************************************************************************)
(* FileManager properties                                                  *)
(***************************************************************************)
\* the processes that hold a FileManager for the directory
Alive == {p \in Procs : fm[p] # None}

\* no call of new or open_existing is under way
Quiescent == \A p \in Procs : call[p] = Idle

\* CURRENT and the manifest are as new left them
Intact(f) ==
    /\ file_exists(f, CURRENT) /\ read_to_string(f, CURRENT) = CurrentText
    /\ file_exists(f, MANIFEST_000001) /\ read_to_string(f, MANIFEST_000001) = ManifestText

AlreadyOpenBy(text) == <<"database already open by process ">> \o text

\* C11: for one database directory at most one FileManager is alive at any
\* time: whatever the interleaving of the steps of new, open_existing and drop
\* of several processes, no two calls have both returned Ok with neither
\* FileManager dropped.
C11_AtMostOneFileManagerAlive == Cardinality(Alive) <= 1

\* A process holds the FileManager and the call of another one has just failed
\* on the LOCK file.
C11_Witness ==
    \E p \in Alive :
        /\ ret.proc # p
        /\ ret.op \in {"new", "open_existing"}
        /\ ~ret.ok
        /\ ret.kind = "AlreadyExists"

\* C12: after any sequence of successful or failed new and open_existing calls
\* and drops, without crashes, the LOCK file exists only while a FileManager
\* for the directory is alive, and it then holds the process id of that
\* instance's process.
C12_LockOnlyWhileAlive ==
    (Quiescent /\ file_exists(fs, LOCK)) =>
        \E p \in Alive : read_to_string(fs, LOCK) = to_string(p)

\* C13: dropping a FileManager removes the LOCK file, and the open_existing
\* that follows the drop on a directory whose CURRENT and manifest are intact
\* succeeds and creates LOCK again, with the opener's process id.
C13_DropReleasesLock ==
    [][\A p \in Procs :
          /\ Drop(p) => ~file_exists(fs', LOCK)
          /\ (CallOpenExisting(p) /\ ret.op = "drop" /\ Intact(fs)) =>
                /\ ret'.ok
                /\ fm'[p] # None
                /\ file_exists(fs', LOCK)
                /\ read_to_string(fs', LOCK) = to_string(p)]_vars

\* The database was made, dropped and opened again: the opener holds it.
C13_Witness ==
    /\ ret.op = "open_existing"
    /\ ret.ok
    /\ fm[ret.proc] # None
    /\ file_exists(fs, LOCK)
    /\ read_to_string(fs, LOCK) = to_string(ret.proc)

\* C14: open_existing on an initialized directory whose LOCK file exists fails
\* with AlreadyExists, its message names the process id stored in LOCK, no
\* FileManager is created, and LOCK and its content are left as they were.
C14_OpenOfLockedFails ==
    [][\A p \in Procs :
          (CallOpenExisting(p) /\ file_exists(fs, CURRENT) /\ file_exists(fs, LOCK)) =>
                /\ ret'.proc = p
                /\ ~ret'.ok
                /\ ret'.kind = "AlreadyExists"
                /\ ret'.msg = AlreadyOpenBy(read_to_string(fs, LOCK))
                /\ fm' = fm
                /\ fs' = fs]_vars

\* A process was refused because another one, named in the message, holds the
\* database.
C14_Witness ==
    /\ ret.op = "open_existing"
    /\ ret.kind = "AlreadyExists"
    /\ \E q \in Alive : q # ret.proc /\ ret.msg = AlreadyOpenBy(to_string(q))
    /\ fm[ret.proc] = None

\* s + k as a number of any size
RECURSIVE Plus(_, _)
Plus(ds, k) == IF k = 0 THEN ds ELSE Plus(Succ(ds), k - 1)

Less(a, b) == a # b /\ Leq(a, b)

\* C15: the N calls of new_file_number on one FileManager seeded with s,
\* whatever the threads that make them, return the pairwise distinct values
\* s, s+1, ..., s+N-1, and a later call returns a larger value than an earlier
\* one.
C15_NumbersRunFromSeed ==
    \A p \in Alive :
        LET s == fm[p][1].seed
            n == Len(issued[p]) IN
        /\ \A i \in 1..n : issued[p][i].value = Plus(s, i - 1)
        /\ \A i, j \in 1..n : i < j => Less(issued[p][i].value, issued[p][j].value)

\* the path holds a directory entry
HasEntries(f) == \E n \in Names : f.files[n] # None

\* C16: if the process is killed at any step of new, also between the write of
\* CURRENT.tmp and its rename, the directory never holds a CURRENT file with
\* partial content: CURRENT is absent or it is the manifest name and a newline.
C16_CurrentNeverPartial ==
    file_exists(fs, CURRENT) => read_to_string(fs, CURRENT) = CurrentText

\* A process was killed after it wrote CURRENT.tmp and before it renamed it.
C16_Witness ==
    /\ Quiescent
    /\ ret.op = "kill"
    /\ file_exists(fs, curtmp_path)
    /\ read_to_string(fs, curtmp_path) = CurrentText
    /\ ~file_exists(fs, CURRENT)

\* C17: after new succeeds on an absent or empty directory, the directory
\* holds LOCK with this process id, MANIFEST-000001 with the line
\* 'next_file_number: 2', CURRENT with 'MANIFEST-000001', and no CURRENT.tmp;
\* the first new_file_number() returns 2 and the second returns 3.
C17_NewLeavesFreshDatabase ==
    [][\A p \in Procs :
          /\ (CallNew(p) /\ (~exists(fs) \/ (is_dir(fs) /\ ~HasEntries(fs)))) =>
                /\ ret'.ok
                /\ fm'[p] # None
                /\ fs'.kind = "dir"
                /\ fs'.files = [NoFiles EXCEPT ![LOCK] = Some(to_string(p)),
                                               ![MANIFEST_000001] = Some(ManifestText),
                                               ![CURRENT] = Some(CurrentText)]
          /\ (fm[p] # None /\ fm[p][1].by = "new") =>
                \A t \in Threads :
                    NewFileNumber(p, t) =>
                        \A i \in 1..Min(2, Len(issued'[p])) : issued'[p][i].value = <<i + 1>>]_vars

\* new has made the database and its FileManager has given out two numbers.
C17_Witness ==
    /\ ret.op = "new"
    /\ ret.ok
    /\ ret.proc \in Alive
    /\ Len(issued[ret.proc]) = 2

\* C18: new fails with AlreadyExists when the path is a regular file or a
\* directory with at least one entry, and it then creates, changes and removes
\* nothing on disk.
C18_NewRefusesOccupiedPath ==
    [][\A p \in Procs :
          (CallNew(p) /\ (is_file(fs) \/ (is_dir(fs) /\ HasEntries(fs)))) =>
                /\ ret'.proc = p
                /\ ~ret'.ok
                /\ ret'.kind = "AlreadyExists"
                /\ fm' = fm
                /\ fs' = fs]_vars

\* new was refused on a directory that holds one file, not a database.
C18_Witness ==
    /\ ret.op = "new"
    /\ ret.kind = "AlreadyExists"
    /\ is_dir(fs)
    /\ \A n \in Names : file_exists(fs, n) <=> n = SOMEFILE

\* C19: open_existing fails with NotFound when the directory does not exist or
\* exists without a CURRENT file, and it then creates no LOCK file.
C19_OpenOfNoDatabaseFails ==
    [][\A p \in Procs :
          (CallOpenExisting(p) /\ (~exists(fs) \/ ~file_exists(fs, CURRENT))) =>
                /\ ret'.proc = p
                /\ ~ret'.ok
                /\ ret'.kind = "NotFound"
                /\ fm' = fm
                /\ fs' = fs]_vars

\* open_existing was refused on a directory that has no CURRENT, and the
\* directory has no LOCK.
C19_Witness ==
    /\ ret.op = "open_existing"
    /\ ret.kind = "NotFound"
    /\ is_dir(fs)
    /\ ~file_exists(fs, CURRENT)
    /\ ~file_exists(fs, LOCK)

\* C20: open_existing on an unlocked, initialized directory seeds the
\* allocator with the decimal value of the 'next_file_number:' line of the
\* manifest CURRENT names, and fails with InvalidData if the manifest has no
\* such line or the value is not a decimal unsigned 64-bit number.
C20_OpenSeedsFromManifest ==
    [][\A p \in Procs : \A m \in Manifests :
          ( /\ CallOpenExisting(p)
            /\ ~file_exists(fs, LOCK)
            /\ file_exists(fs, CURRENT)
            /\ read_to_string(fs, CURRENT) = CurrentText
            /\ file_exists(fs, MANIFEST_000001)
            /\ read_to_string(fs, MANIFEST_000001) = m.text ) =>
                IF m.value # None
                THEN /\ ret'.ok
                     /\ fm'[p] # None
                     /\ fm'[p][1].next_file_number = m.value[1]
                ELSE /\ ~ret'.ok
                     /\ ret'.kind = "InvalidData"
                     /\ fm'[p] = None]_vars

\* open_existing has read the value 7 from a line padded with blanks and a
\* leading zero.
C20_Witness ==
    /\ ret.op = "open_existing"
    /\ ret.ok
    /\ ret.proc \in Alive
    /\ fm[ret.proc][1].next_file_number = <<7>>
    /\ read_to_string(fs, MANIFEST_000001) # ManifestText

\* C21: new_file_number never modifies the manifest or any other file: after
\* new, any number of new_file_number calls, drop and open_existing, the first
\* new_file_number of the reopened FileManager returns the value stored in the
\* manifest (2 for a database made by new), whatever the earlier session
\* allocated.
C21_NumbersAreNotPersisted ==
    [][\A p \in Procs, t \in Threads :
          NewFileNumber(p, t) =>
              /\ fs' = fs
              /\ (fm[p][1].by = "open_existing" /\ issued[p] = <<>>) =>
                    \A m \in Manifests :
                        read_to_string(fs, MANIFEST_000001) = m.text =>
                            /\ m.value # None
                            /\ issued'[p][1].value = m.value[1]]_vars

\* A FileManager gave out the numbers 2 and 3 and was dropped; the one that
\* opened the database next was given 2 again.
C21_Witness ==
    \E q \in Alive :
        /\ fm[q][1].by = "open_existing"
        /\ fm[q][1].prior = <<4>>
        /\ Intact(fs)
        /\ Len(issued[q]) >= 1
        /\ issued[q][1].value = <<2>>

(***************************************************************************)
(* InternalKey encoding                                                    *)
(***************************************************************************)
\* C22: for every InternalKey (any user key, the empty one included, any
\* 64-bit sequence number, Put or Delete) decoding the encoding succeeds and
\* gives a key equal to the one encoded, and the encoding is nine bytes
\* longer than the user key.
C22_DecodeInvertsEncode ==
    called.fn = "encode" =>
        /\ decode(returned).ok
        /\ eq(decode(returned).value, called.self)
        /\ Len(returned) = Len(called.self.user_key) + 9

C22_Witness ==
    /\ called.fn = "encode"
    /\ called.self = InternalKey(<<>>, <<5, 1, 1>>, "Delete")
    /\ returned = <<0, 0, 0, 0, 0, 0, 1, 255, 0>>
    /\ decode(returned) = OkOf(called.self)

\* a sorts before b as byte strings: at the first place where they differ a
\* has the smaller byte, or a ends there
Before(a, b) ==
    \E i \in 1..Len(b) :
        /\ Len(a) >= i - 1
        /\ \A j \in 1..(i - 1) : a[j] = b[j]
        /\ (Len(a) = i - 1 \/ a[i] < b[i])

\* C23: cmp orders by user key ascending; of two keys with one user key the
\* one with the larger sequence number is Less; with one user key and one
\* sequence number Delete is Less than Put; cmp is Equal exactly when the
\* three fields are equal.
C23_CmpOrdersKeys ==
    called.fn = "cmp" =>
        LET a == called.self
            b == called.other
        IN
        /\ Before(a.user_key, b.user_key) => returned = -1
        /\ Before(b.user_key, a.user_key) => returned = 1
        /\ (a.user_key = b.user_key /\ a.sequence_number > b.sequence_number)
               => returned = -1
        /\ (a.user_key = b.user_key /\ a.sequence_number < b.sequence_number)
               => returned = 1
        /\ (a.user_key = b.user_key /\ a.sequence_number = b.sequence_number
                /\ a.key_type = "Delete" /\ b.key_type = "Put") => returned = -1
        /\ (a.user_key = b.user_key /\ a.sequence_number = b.sequence_number
                /\ a.key_type = "Put" /\ b.key_type = "Delete") => returned = 1
        /\ returned = 0 <=>
               /\ a.user_key = b.user_key
               /\ a.sequence_number = b.sequence_number
               /\ a.key_type = b.key_type

C23_Witness ==
    /\ called.fn = "cmp"
    /\ called.self = InternalKey(<<97, 0>>, 2147483647, "Put")
    /\ called.other = InternalKey(<<97, 0>>, 2, "Delete")
    /\ returned = -1

\* C24: decode fails with a DecodeError, and never panics, exactly when the
\* input has fewer than nine bytes or its last byte is neither 0 (Delete)
\* nor 1 (Put); every other input decodes to the key whose user key is all
\* bytes but the last nine, whose sequence number is the big-endian value of
\* the eight bytes before the last, and whose type is the one of the last byte.
C24_DecodeFailsOnShortOrUntagged ==
    called.fn = "decode" =>
        LET data == called.data
            n == Len(data)
            bad == n < 9 \/ data[n] \notin {0, 1}
        IN
        /\ ~returned.panic
        /\ ~returned.ok <=> bad
        /\ ~bad =>
               /\ returned.value.user_key = SubSeq(data, 1, n - 9)
               /\ \A t \in BigEndian :
                      t.bytes = SubSeq(data, n - 8, n - 1)
                          => returned.value.sequence_number = t.value
               /\ returned.value.key_type = (IF data[n] = 0 THEN "Delete" ELSE "Put")

\* an input of nine bytes with a byte that is no tag at its end is refused,
\* one of eight bytes too, and eleven bytes are taken apart
C24_WitnessUntagged ==
    /\ called.fn = "decode"
    /\ called.data = <<0, 0, 0, 0, 0, 0, 0, 1, 2>>
    /\ ~returned.ok

C24_WitnessShort ==
    /\ called.fn = "decode"
    /\ called.data = <<1, 0, 0, 0, 0, 0, 0, 1>>
    /\ ~returned.ok

C24_Witness ==
    /\ called.fn = "decode"
    /\ called.data = <<97, 1, 255, 255, 255, 255, 255, 255, 255, 255, 1>>
    /\ returned = OkOf(InternalKey(<<97, 1>>, U64_MAX, "Put"))

(***************************************************************************)
(* File names                                                              *)
(***************************************************************************)
\* the path of the entry called name in the database directory
InDbDir(name) == DbDirPath \o <<"/">> \o name

\* C25: generate_filename returns the database directory joined with the
\* zero-padded number and ".sst" for an SSTable, the padded number and ".log"
\* for a WriteAheadLog, "MANIFEST-" and the padded number for a Manifest, and
\* the fixed names CURRENT and LOCK; the call changes neither the allocator
\* nor anything on disk.
C25_FilenameOfEachKind ==
    [][\A p \in Procs :
          /\ \A n \in FileNumbers :
                /\ GenerateFilename(p, "SSTable", Some(n.number)) =>
                       returned' = OkOf(InDbDir(n.padded \o <<".", "s", "s", "t">>))
                /\ GenerateFilename(p, "WriteAheadLog", Some(n.number)) =>
                       returned' = OkOf(InDbDir(n.padded \o <<".", "l", "o", "g">>))
                /\ GenerateFilename(p, "Manifest", Some(n.number)) =>
                       returned' = OkOf(InDbDir(
                           <<"M", "A", "N", "I", "F", "E", "S", "T", "-">> \o n.padded))
          /\ GenerateFilename(p, "Current", None) =>
                 returned' = OkOf(InDbDir(<<"C", "U", "R", "R", "E", "N", "T">>))
          /\ GenerateFilename(p, "Lock", None) =>
                 returned' = OkOf(InDbDir(<<"L", "O", "C", "K">>))
          /\ \A file_type \in Name, number \in {None} \cup {Some(n.number) : n \in FileNumbers} :
                GenerateFilename(p, file_type, number) =>
                    /\ fs' = fs
                    /\ fm' = fm]_vars

\* the manifest name of number 5, asked of a FileManager that gave out 2
C25_Witness ==
    /\ called = [fn |-> "generate_filename", file_type |-> "Manifest", number |-> Some(<<5>>)]
    /\ returned = OkOf(<<"/", "d", "b", "/", "M", "A", "N", "I", "F", "E", "S", "T", "-",
                         "0", "0", "0", "0", "0", "5">>)
    /\ \E p \in Alive : Len(issued[p]) = 1 /\ fm[p][1].next_file_number = <<3>>
    /\ Intact(fs)

\* the digits of the name at the end of path: what is before ".sst" and
\* ".log", and what is after "MANIFEST-"
NumericPart(file_type, path) ==
    LET name == SubSeq(path, Len(DbDirPath) + 2, Len(path)) IN
    IF file_type = "Manifest" THEN SubSeq(name, 10, Len(name))
    ELSE SubSeq(name, 1, Len(name) - 4)

Numbered == {"SSTable", "WriteAheadLog", "Manifest"}

\* the name in returned was made for a number that new_file_number returned
NamedForIssued ==
    /\ called.fn = "generate_filename"
    /\ called.file_type \in Numbered
    /\ \E p \in Alive, i \in 1..MaxCalls :
           i <= Len(issued[p]) /\ called.number = Some(issued[p][i].value)

\* C26 as stated: for every file number new_file_number can return, the
\* numeric part of the name of an SSTable, a WriteAheadLog or a Manifest is
\* exactly six decimal digits.
C26_ExactlySixDigits ==
    NamedForIssued =>
        LET part == NumericPart(called.file_type, returned.value) IN
        /\ Len(part) = 6
        /\ \A i \in 1..Len(part) : IsDigitChar(part[i])

\* C26, amended: the numeric part is the decimal number with zeros put before
\* it up to six digits: exactly six digits for the numbers below 1,000,000,
\* and the number's own seven to twenty digits, none dropped, from 1,000,000 on.
C26_AtLeastSixDigits ==
    NamedForIssued =>
        LET part == NumericPart(called.file_type, returned.value)
            number == called.number[1]
        IN
        /\ returned.ok
        /\ \A i \in 1..Len(part) : IsDigitChar(part[i])
        /\ StripZeros([i \in 1..Len(part) |-> DigitOf(part[i])]) = number
        /\ Len(part) = (IF Len(number) <= 6 THEN 6 ELSE Len(number))

\* the write-ahead log of number u64::MAX, a number the FileManager opened on
\* a manifest that holds it has given out
C26_Witness ==
    /\ NamedForIssued
    /\ called.file_type = "WriteAheadLog"
    /\ called.number = Some(U64_MAX)
    /\ returned = OkOf(InDbDir(Numeral(U64_MAX) \o <<".", "l", "o", "g">>))

\* C27: generate_filename panics, and returns no path, when an SSTable, a
\* WriteAheadLog or a Manifest is asked for without a number and when
\* Current or Lock is asked for with one; every other combination of type
\* and number returns a path.
C27_PanicsOnMisuse ==
    called.fn = "generate_filename" =>
        LET misuse == \/ called.file_type \in Numbered /\ called.number = None
                      \/ called.file_type \in {"Current", "Lock"} /\ called.number # None
        IN
        /\ returned.panic <=> misuse
        /\ returned.panic => ~returned.ok /\ returned.value = <<>>
        /\ ~returned.panic => returned.ok /\ Len(returned.value) > Len(DbDirPath) + 1

\* CURRENT asked for with the number 42, as in
\* test_generate_filename_current_with_number_panics
C27_Witness ==
    /\ called = [fn |-> "generate_filename", file_type |-> "Current", number |-> Some(<<4, 2>>)]
    /\ returned = PanicWith("Fixed file types should not have a number")

\* an SSTable asked for without a number
C27_WitnessNoNumber ==
    /\ called = [fn |-> "generate_filename", file_type |-> "SSTable", number |-> None]
    /\ returned = PanicWith("SSTable requires a file number!")

(***************************************************************************)
(* Configuration                                                           *)
(***************************************************************************)
\* the errors of the rules that are violated, in the order of the rules
Violations(rules) ==
    LET picked == SelectSeq(rules, LAMBDA r : r.violated) IN
    [i \in 1..Len(picked) |-> [error |-> picked[i].error, args |-> picked[i].args]]

\* C28: TaurusConfig::validate returns Ok exactly when block_size is a power
\* of two in [4 KiB, 128 KiB], mem_table_size is in [1 MiB, 1 GiB] and larger
\* than block_size, and bloom_bits_per_key is in [4, 20]; otherwise it
\* returns the list with one error for each rule that is violated, in the
\* order of the checks.
C28_TaurusConfigValidated ==
    called.fn = "TaurusConfig::validate" =>
        LET bs == called.self.block_size
            mt == called.self.mem_table_size
            bb == called.self.bloom_bits_per_key
            power_of_two == \E k \in 0..30 : bs = 2 ^ k
            rules ==
                << [violated |-> ~power_of_two,
                    error |-> "BlockSizeNotPowerOfTwo", args |-> <<bs>>],
                   [violated |-> bs < 4096, error |-> "BlockSizeTooSmall", args |-> <<bs>>],
                   [violated |-> bs > 131072, error |-> "BlockSizeTooLarge", args |-> <<bs>>],
                   [violated |-> mt < 1048576,
                    error |-> "MemtableSizeTooSmall", args |-> <<mt>>],
                   [violated |-> mt > 1073741824,
                    error |-> "MemtableSizeTooLarge", args |-> <<mt>>],
                   [violated |-> ~(mt > bs),
                    error |-> "MemtableSmallerThanBlock", args |-> <<mt, bs>>],
                   [violated |-> bb < 4, error |-> "BloomBitsPerKeyTooLow", args |-> <<bb>>],
                   [violated |-> bb > 20, error |-> "BloomBitsPerKeyTooHigh", args |-> <<bb>>] >>
        IN
        /\ returned.ok <=>
               /\ power_of_two /\ bs >= 4096 /\ bs <= 131072
               /\ mt >= 1048576 /\ mt <= 1073741824 /\ mt > bs
               /\ bb >= 4 /\ bb <= 20
        /\ returned.errors = Violations(rules)

\* a block size that is no power of two and too large, a memtable below it,
\* too many bloom bits: four errors in the order of the checks
C28_Witness ==
    /\ called.fn = "TaurusConfig::validate"
    /\ called.self.block_size = 128 * 1024 + 1
    /\ called.self.mem_table_size = 128 * 1024
    /\ called.self.bloom_bits_per_key = 21
    /\ ~returned.ok
    /\ [i \in 1..Len(returned.errors) |-> returned.errors[i].error]
           = <<"BlockSizeNotPowerOfTwo", "BlockSizeTooLarge", "MemtableSizeTooSmall",
               "MemtableSmallerThanBlock", "BloomBitsPerKeyTooHigh">>

\* the default configuration is accepted
C28_WitnessOk ==
    /\ called.fn = "TaurusConfig::validate"
    /\ called.self = [block_size |-> 32 * 1024, mem_table_size |-> 64 * 1024 * 1024,
                      compression_algo |-> "LZ4", bloom_bits_per_key |-> 10]
    /\ returned = OkUnit

\* how many entries of errors are the error e
Count(errors, e) == Cardinality({i \in 1..Len(errors) : errors[i] = e})

C29_WitnessOk ==
    /\ called.fn = "MvccConfig::validate"
    /\ called.self.snapshot_retention = [min_snapshots |-> 5, max_snapshots |-> 1000,
                                         max_snapshot_age_secs |-> 3600]
    /\ called.self.snapshot_age_warning_threshold_secs = 1800
    /\ called.self.gc_config.gc_batch_size = 1000
    /\ returned = OkUnit

\* the error is in the list returned, once
Reported(e) == Count(returned.errors, e) = 1

NotReported(name) == \A i \in 1..Len(returned.errors) : returned.errors[i].error # name

\* C30: PerformanceConfig::validate checks the WAL sync parameters of the
\* active mode only: in Batch mode a zero batch_size and a zero batch_bytes
\* are each reported, in Periodic mode a zero periodic_interval_ms is, in
\* EveryWrite mode none of the three is checked, and a zero in a parameter of
\* a mode that is not active is no error; scan_parallelism above
\* max_read_threads is reported in every mode.
C30_WalSyncCheckedByMode ==
    called.fn = "PerformanceConfig::validate" =>
        LET w == called.self.wal_sync
            par == called.self.parallelism
            size_zero == [error |-> "WalBatchSizeZero", args |-> <<>>]
            bytes_zero == [error |-> "WalBatchBytesZero", args |-> <<>>]
            interval_zero == [error |-> "WalPeriodicIntervalZero", args |-> <<>>]
        IN
        /\ (w.mode = "Batch" /\ w.batch_size = 0) => Reported(size_zero)
        /\ (w.mode = "Batch" /\ w.batch_bytes = 0) => Reported(bytes_zero)
        /\ (w.mode = "Periodic" /\ w.periodic_interval_ms = 0) => Reported(interval_zero)
        /\ (w.mode # "Batch" \/ w.batch_size # 0) => NotReported("WalBatchSizeZero")
        /\ (w.mode # "Batch" \/ w.batch_bytes # 0) => NotReported("WalBatchBytesZero")
        /\ (w.mode # "Periodic" \/ w.periodic_interval_ms # 0)
               => NotReported("WalPeriodicIntervalZero")
        /\ IF par.scan_parallelism > par.max_read_threads
           THEN Reported([error |-> "ScanParallelismExceedsReadThreads",
                          args |-> <<par.scan_parallelism, par.max_read_threads>>])
           ELSE NotReported("ScanParallelismExceedsReadThreads")
        /\ returned.ok <=> returned.errors = <<>>

\* Periodic mode with both batch parameters zero: accepted
C30_Witness ==
    /\ called.fn = "PerformanceConfig::validate"
    /\ called.self.wal_sync = [mode |-> "Periodic", batch_size |-> 0, batch_bytes |-> 0,
                               periodic_interval_ms |-> 1000]
    /\ called.self.parallelism.scan_parallelism = 8
    /\ called.self.parallelism.max_read_threads = 8
    /\ returned = OkUnit

\* Batch mode with all three parameters zero and more scans than read
\* threads: both batch errors and the scan error, no interval error
C30_WitnessBatch ==
    /\ called.fn = "PerformanceConfig::validate"
    /\ called.self.wal_sync = [mode |-> "Batch", batch_size |-> 0, batch_bytes |-> 0,
                               periodic_interval_ms |-> 0]
    /\ called.self.parallelism.scan_parallelism = 9
    /\ called.self.parallelism.max_read_threads = 8
    /\ [i \in 1..Len(returned.errors) |-> returned.errors[i].error]
           = <<"WalBatchSizeZero", "WalBatchBytesZero", "ScanParallelismExceedsReadThreads">>

(***************************************************************************)
(* Crashes                                                                 *)
(***************************************************************************)
\* some call of new or of open_existing on the path returns Ok, at once or
\* after at most n calls that failed, with no file removed in between
RECURSIVE Usable(_, _)
Usable(f, n) ==
    \E p \in Procs, op \in {"new", "open_existing"} :
        LET r == Run(f, p, Frame(op, op)) IN
        \/ r.frame.result.ok
        \/ n > 0 /\ Usable(r.fs, n - 1)

\* C31: after a process is killed at any point (at any step of new, at any
\* step of open_existing, or while it holds a FileManager) the directory is
\* not left unusable for good: a later new or open_existing on it can succeed
\* with no file removed by hand.
C31_CrashLeavesDirectoryUsable ==
    (ret.op = "kill" /\ Quiescent /\ Alive = {}) => Usable(fs, 2)

(***************************************************************************)
(* SkipList structure                                                      *)
(***************************************************************************)
\* the nodes that hold a key, and the height of a node of the list s
RealNodes(s) == DOMAIN s.nodes \ {HEAD}

Height(s, i) == Len(s.nodes[i].forward_pointers)

\* the largest height of a node that holds a key
Tallest(s) == CHOOSE h \in 1..MAX_HEIGHT :
                  /\ \E i \in RealNodes(s) : Height(s, i) = h
                  /\ \A i \in RealNodes(s) : Height(s, i) <= h

\* current_max_level is what the nodes of s make it
LevelFits(s) ==
    /\ RealNodes(s) # {} =>
           /\ s.current_max_level = Tallest(s) - 1
           /\ s.nodes[HEAD].forward_pointers[s.current_max_level + 1] # NIL
    /\ \A l \in 1..MAX_HEIGHT :
           l > s.current_max_level + 1 => s.nodes[HEAD].forward_pointers[l] = NIL
    /\ RealNodes(s) = {} => s.current_max_level = 0

\* C32: after every insert and delete on a list that is not empty
\* current_max_level is the highest level a real node is linked on (the
\* largest node height minus 1) and the head's forward pointers above it are
\* empty; on an empty list it is 0; an insert of a node whose height exceeds
\* current_max_level + 1 raises it to height - 1, and a delete lowers it
\* while the top level is empty.
C32_MaxLevelFollowsNodes ==
    /\ LevelFits(SL)
    /\ \A k \in Keys \ Present : \A c \in Coins :
           \A s2 \in {insert(SL, k, <<1>>, random_height(c))} :
               /\ s2.current_max_level =
                      (IF random_height(c) > current_max_level + 1
                       THEN random_height(c) - 1 ELSE current_max_level)
               /\ LevelFits(s2)
    /\ \A k \in Present :
           \A r \in {delete(SL, k)} :
               /\ r.sl.current_max_level <= current_max_level
               /\ LevelFits(r.sl)

\* a list whose tallest node has the full height and whose next has height 2:
\* the delete of the tallest lowers current_max_level from 11 to 1
C32_Witness ==
    /\ last_op = "insert_new"
    /\ current_max_level = MAX_HEIGHT - 1
    /\ \E k \in Present :
           /\ delete(SL, k).sl.current_max_level = 1
           /\ RealNodes(delete(SL, k).sl) # {}

\* the nodes of height above level whose key is less than key
Below(level, key) ==
    {i \in RealNodes(SL) : Height(SL, i) > level /\ cmp(nodes[i].key[1], key) < 0}

\* the last of them, the head when there is none
LastBelow(level, key) ==
    IF Below(level, key) = {} THEN HEAD
    ELSE CHOOSE i \in Below(level, key) :
             \A j \in Below(level, key) : cmp(nodes[j].key[1], nodes[i].key[1]) <= 0

\* C33: search(key) returns a finger array of current_max_level + 1 entries;
\* entry l is the last node on level l whose key is less than the target, the
\* head when there is none; so on every level l below the height of a node
\* that holds the target, the level-l successor of entry l is that node.
C33_SearchReturnsPredecessors ==
    \A k \in Keys :
        \A update \in {search(SL, k)} :
            /\ Len(update) = current_max_level + 1
            /\ \A l \in 0..current_max_level : update[l + 1] = LastBelow(l, k)
            /\ \A i \in RealNodes(SL) :
                   nodes[i].key = Some(k) =>
                       \A l \in 0..(Height(SL, i) - 1) : Fwd(nodes, update[l + 1], l) = i

\* three nodes of the heights 12, 2 and 1, in this order: the fingers of the
\* search for a key after them are the three of them, the node of height 1 on
\* level 0, the one of height 2 on level 1 and the tallest on the levels above
C33_Witness ==
    /\ current_max_level = MAX_HEIGHT - 1
    /\ length = 3
    /\ \E k \in Keys \ Present :
           LET update == search(SL, k) IN
           /\ Cardinality({update[l] : l \in 1..Len(update)}) = 3
           /\ HEAD \notin {update[l] : l \in 1..Len(update)}
           /\ Height(SL, update[1]) = 1
           /\ Height(SL, update[2]) = 2

\* the nodes after node id on a level, in the order of the links; ok is false
\* when more than fuel nodes follow (the links run in a circle) or a node on
\* the way has no forward slot of the level
RECURSIVE Walk(_, _, _)
Walk(id, level, fuel) ==
    IF Height(SL, id) <= level THEN [chain |-> <<>>, ok |-> FALSE]
    ELSE LET next == Fwd(nodes, id, level) IN
         IF next = NIL THEN [chain |-> <<>>, ok |-> TRUE]
         ELSE IF fuel = 0 THEN [chain |-> <<>>, ok |-> FALSE]
         ELSE LET rest == Walk(next, level, fuel - 1) IN
              [chain |-> <<next>> \o rest.chain, ok |-> rest.ok]

Chain(level) == Walk(HEAD, level, Cardinality(RealNodes(SL)))

\* C34: after any sequence of inserts and deletes the nodes reached from the
\* head along the level-0 links are in strictly ascending order of their
\* keys, no key twice, the chain ends, and it has len() nodes.
C34_LevelZeroSortedAndCounted ==
    \A c \in {Chain(0)} :
        /\ c.ok
        /\ \A i, j \in 1..Len(c.chain) :
               i < j => cmp(nodes[c.chain[i]].key[1], nodes[c.chain[j]].key[1]) < 0
        /\ Len(c.chain) = len(SL)

\* a delete has just succeeded and two versions of one user key are left: the
\* chain holds the tombstone of sequence number 2 and then the put of 1
C34_Witness ==
    /\ last_op = "delete_true"
    /\ len(SL) = 2
    /\ [i \in 1..Len(Chain(0).chain) |-> nodes[Chain(0).chain[i]].key[1]]
           = << InternalKey(<<97>>, 2, "Delete"), InternalKey(<<97>>, 1, "Put") >>

\* C35: after any sequence of inserts and deletes, for every level l >= 1 the
\* chain of the nodes reached from the head on level l is the level-0 chain
\* restricted to the nodes of height above l, in the same order; so every
\* node read on level l has a forward slot l, every height is between 1 and
\* 12, and a deleted node is reached on no level.
C35_LevelsAreSubchains ==
    \A c0 \in {Chain(0)} :
        /\ \A l \in 1..(MAX_HEIGHT - 1) :
               \A c \in {Chain(l)} :
                   /\ c.ok
                   /\ c.chain = SelectSeq(c0.chain, LAMBDA i : Height(SL, i) > l)
        /\ \A i \in RealNodes(SL) : Height(SL, i) >= 1 /\ Height(SL, i) <= MAX_HEIGHT
        /\ \A l \in 0..(MAX_HEIGHT - 1) :
               \A i \in 1..Len(Chain(l).chain) :
                   nodes[Chain(l).chain[i]].key[1] \in Present

\* a node of height 2 was deleted between two that stay, one of the full
\* height and one of height 2: level 1 links the two
C35_Witness ==
    /\ last_op = "delete_true"
    /\ Len(Chain(0).chain) = 2
    /\ Len(Chain(1).chain) = 2
    /\ Len(Chain(2).chain) = 1
    /\ Chain(1).chain = Chain(0).chain

(***************************************************************************)
(* open_existing: failures and races                                       *)
(***************************************************************************)
\* the names of the files at the path
FileSet(f) == {n \in Names : f.files[n] # None}

\* C36: whenever open_existing returns an error, of whatever kind, the
\* directory holds the same set of files as before the call: a LOCK file
\* that the call created is not left behind.
C36_FailedOpenLeavesNoFile ==
    [][\A p \in Procs :
          (CallOpenExisting(p) /\ ~ret'.ok) =>
              /\ fs'.kind = fs.kind
              /\ FileSet(fs') = FileSet(fs)]_vars

\* C37: when open_existing runs while the holder of the lock acquires it
\* (LOCK created, the process id not yet written) or releases it (drop
\* removes LOCK), an open_existing that found LOCK present still fails with
\* AlreadyExists and a process id that is not empty: no other kind of error,
\* no empty id.
C37_ContendedOpenNamesHolder ==
    [][\A p \in Procs :
          (Continue(p) /\ call[p].op = "open_existing" /\ call[p].pc = "lock_read") =>
              /\ ~ret'.ok
              /\ ret'.kind = "AlreadyExists"
              /\ Len(ret'.msg) > Len(AlreadyOpenBy(<<>>))]_vars

\* the text has a line that ends with a newline, starts with the prefix
\* 'next_file_number:' and goes on with blanks and decimal digits only
CompleteLine(text) ==
    \E i, j \in 1..Len(text) :
        /\ i + Len(NEXT_FILE_NUMBER) <= j
        /\ i = 1 \/ text[i - 1] = "\n"
        /\ text[j] = "\n"
        /\ SubSeq(text, i, i + Len(NEXT_FILE_NUMBER) - 1) = NEXT_FILE_NUMBER
        /\ \A k \in (i + Len(NEXT_FILE_NUMBER))..(j - 1) :
               text[k] \in {" ", "0", "1", "2", "3", "4", "5", "6", "7", "8", "9"}
        /\ \E k \in (i + Len(NEXT_FILE_NUMBER))..(j - 1) : text[k] # " "

\* the file CURRENT names: its content without the newline at its end
NamedByCurrent(f) ==
    LET text == read_to_string(f, CURRENT) IN
    IF text # <<>> /\ text[Len(text)] = "\n" THEN SubSeq(text, 1, Len(text) - 1) ELSE text

\* C38: in every state of a directory that FileManager::new initialized, the
\* states a kill at any step of new leaves included, if CURRENT exists then the
\* manifest it names exists and holds a complete 'next_file_number:' line that
\* parses.
C38_CurrentNamesCompleteManifest ==
    file_exists(fs, CURRENT) =>
        /\ file_exists(fs, NamedByCurrent(fs))
        /\ CompleteLine(read_to_string(fs, NamedByCurrent(fs)))
        /\ get_next_file_num(fs, NamedByCurrent(fs)).ok

\* A process was killed in new after the rename: CURRENT is there and the
\* stale LOCK of the killed process with it.
C38_Witness ==
    /\ ret.op = "kill"
    /\ Quiescent /\ Alive = {}
    /\ file_exists(fs, CURRENT)
    /\ file_exists(fs, LOCK)

\* A process was killed in the write of the manifest: the manifest holds a part
\* of its line and CURRENT is not there.
C38_WitnessTornManifest ==
    /\ ret.op = "kill"
    /\ file_exists(fs, MANIFEST_000001)
    /\ read_to_string(fs, MANIFEST_000001) # <<>>
    /\ ~CompleteLine(read_to_string(fs, MANIFEST_000001))
    /\ ~file_exists(fs, CURRENT)

====
